---- MODULE Spec2Model ----
(***************************************************************************)
(* Barzel Analytics (Dubai, V2): the facts normaliser (add_facts), the     *)
(* percentile scoring engine (percentile_score, barzel_score_pdf_only,     *)
(* barzel_score_details, barzel_scores_by_district) and the KPI library    *)
(* (weighted_median, group_stats, snapshot, snapshots_by,                  *)
(* terrace_premium).                                                       *)
(*                                                                         *)
(* The functions are pure; each specification below draws the inputs of    *)
(* one group of functions from a bounded family in Init and applies the    *)
(* functions in its actions.                                               *)
(*   SpecPct    percentile_score on a reference series and a value         *)
(*   SpecScore  the three scoring functions on a market and a view         *)
(*   SpecFacts  add_facts on a raw table                                   *)
(*   SpecWm     weighted_median on rows of values and weights              *)
(*   SpecGs     group_stats on a listings table                            *)
(*   SpecSnap   snapshot and snapshots_by on a view                        *)
(*   SpecTp     terrace_premium on a view                                  *)
(*   SpecLiq    barzel_scores_by_district on a two-district market         *)
(***************************************************************************)
EXTENDS Integers, Sequences, FiniteSets, TLC

VARIABLES
    pc,                 \* which group of functions the run exercises
    series,             \* percentile_score: the reference series
    value,              \* percentile_score: the subset value of the last call
    higher_is_better,   \* percentile_score: the direction of the last call
    result,             \* percentile_score: what the last call returned
    last,               \* percentile_score: the call before the last one
    df_all,             \* scoring: the full market fact table
    df_view,            \* scoring: the view
    districts,          \* scoring: the districts argument
    score,              \* what barzel_score_pdf_only(df_all, df_view) returned
    details,            \* what barzel_score_details(df_all, df_view) returned
    by_district,        \* what barzel_scores_by_district returned
    raw,                \* add_facts: the caller's raw table
    now,                \* add_facts: what pd.Timestamp.utcnow() returned
    facts,              \* what add_facts(raw) returned
    wm_rows,            \* weighted_median: the rows (value, weight)
    wm_result,          \* weighted_median: what the last call returned
    wm_prev,            \* weighted_median: the call before, on the rows reordered
    gs_df,              \* group_stats: the table
    gs_args,            \* group_stats: group_cols, value_col, weight_col, min_n
    gs_result,          \* what group_stats returned
    sn_view,            \* snapshot, snapshots_by: the view
    sn_group_col,       \* snapshots_by: the group column
    snap,               \* what snapshot(sn_view) returned
    snaps,              \* what snapshots_by(sn_view, sn_group_col) returned
    tp_view,            \* terrace_premium: the view
    tp_result           \* what terrace_premium(tp_view) returned

pctVars == <<series, value, higher_is_better, result, last>>
scoreVars == <<df_all, df_view, districts, score, details, by_district>>
factsVars == <<raw, now, facts>>
wmVars == <<wm_rows, wm_result, wm_prev>>
gsVars == <<gs_df, gs_args, gs_result>>
snapVars == <<sn_view, sn_group_col, snap, snaps>>
tpVars == <<tp_view, tp_result>>
kpiVars == <<wmVars, gsVars, snapVars, tpVars>>
vars == <<pc, pctVars, scoreVars, factsVars, kpiVars>>

(***************************************************************************)
(* Values.  A cell of a table, a scalar argument or a scalar result is a   *)
(* record tagged by k:                                                     *)
(*   "num"  the number n/d, d > 0, in lowest terms (a float of the code,   *)
(*          modelled exactly)                                              *)
(*   "nan"  NaN / None / pd.NA / NaT: the null of the code                 *)
(*   "inf"  +infinity (n = 1) or -infinity (n = -1)                        *)
(*   "str"  a text s that is not a number                                  *)
(***************************************************************************)
NaN == [k |-> "nan"]
PosInf == [k |-> "inf", n |-> 1]
NegInf == [k |-> "inf", n |-> -1]
Str(t) == [k |-> "str", s |-> t]

Abs(i) == IF i < 0 THEN -i ELSE i

RECURSIVE GCD(_, _)
GCD(a, b) == IF b = 0 THEN a ELSE GCD(b, a % b)

\* The number a/b (b # 0) in lowest terms with a positive denominator.
Frac(a, b) ==
    LET g == GCD(Abs(a), Abs(b))
        sgn == IF b < 0 THEN -1 ELSE 1
    IN  [k |-> "num", n |-> sgn * (a \div g), d |-> Abs(b) \div g]

Num(i) == [k |-> "num", n |-> i, d |-> 1]

IsNaN(x) == x.k = "nan"
IsNum(x) == x.k = "num"
IsInf(x) == x.k = "inf"

\* IEEE arithmetic of the code's floats on the values above.
Add(x, y) ==
    IF IsNaN(x) \/ IsNaN(y) THEN NaN
    ELSE IF IsInf(x) /\ IsInf(y) THEN (IF x.n = y.n THEN x ELSE NaN)
    ELSE IF IsInf(x) THEN x
    ELSE IF IsInf(y) THEN y
    ELSE Frac(x.n * y.d + y.n * x.d, x.d * y.d)

Neg(x) ==
    IF IsNaN(x) THEN NaN
    ELSE IF IsInf(x) THEN [k |-> "inf", n |-> -x.n]
    ELSE [k |-> "num", n |-> -x.n, d |-> x.d]

Sub(x, y) == Add(x, Neg(y))

Sign(x) == IF x.n > 0 THEN 1 ELSE IF x.n < 0 THEN -1 ELSE 0

Mul(x, y) ==
    IF IsNaN(x) \/ IsNaN(y) THEN NaN
    ELSE IF IsInf(x) \/ IsInf(y)
         THEN (IF Sign(x) * Sign(y) = 0 THEN NaN
               ELSE [k |-> "inf", n |-> Sign(x) * Sign(y)])
    ELSE Frac(x.n * y.n, x.d * y.d)

\* numpy float division: x/0 is +-inf, 0/0 is nan, no exception.
Div(x, y) ==
    IF IsNaN(x) \/ IsNaN(y) THEN NaN
    ELSE IF IsInf(x) /\ IsInf(y) THEN NaN
    ELSE IF IsInf(x) THEN [k |-> "inf", n |-> x.n * (IF Sign(y) < 0 THEN -1 ELSE 1)]
    ELSE IF IsInf(y) THEN Num(0)
    ELSE IF y.n = 0
         THEN (IF x.n = 0 THEN NaN ELSE [k |-> "inf", n |-> Sign(x)])
    ELSE Frac(x.n * y.d, x.d * y.n)

\* x <= y and x < y of floats: any comparison with NaN is false.
Le(x, y) ==
    IF IsNaN(x) \/ IsNaN(y) THEN FALSE
    ELSE IF IsInf(x) THEN (x.n = -1 \/ (IsInf(y) /\ y.n = 1))
    ELSE IF IsInf(y) THEN y.n = 1
    ELSE x.n * y.d <= y.n * x.d

Lt(x, y) == Le(x, y) /\ x # y

(***************************************************************************)
(* Series helpers.                                                         *)
(***************************************************************************)
\* pd.to_numeric(x, errors="coerce") on one cell: text that is no number
\* becomes NaN.
to_numeric(c) == IF c.k \in {"num", "inf"} THEN c ELSE NaN

NotNaN(c) == ~IsNaN(c)

\* pd.to_numeric(series, errors="coerce").dropna()
NumericDropna(s) == SelectSeq([i \in 1..Len(s) |-> to_numeric(s[i])], NotNaN)

\* The number of entries of s that are <= v: (s <= value).sum()
CountLe(s, v) == Cardinality({i \in 1..Len(s) : Le(s[i], v)})

(***************************************************************************)
(* scoring_pdf_only.py                                                     *)
(***************************************************************************)
MinRef == 10        \* minimum number of non-null reference values
PillarMax == 25     \* points of a percentile of 1

_clip01(x) ==
    IF IsNaN(x) THEN NaN
    ELSE IF Le(x, Num(0)) THEN Num(0)
    ELSE IF Le(Num(1), x) THEN Num(1)
    ELSE x

\* The minimum sample taken as "more than MinRef".
percentile_score_offbyone(s0, v, hib) ==
    LET s == NumericDropna(s0)
    IN  IF Len(s) <= MinRef \/ IsNaN(v) THEN NaN
        ELSE LET pct == Frac(CountLe(s, v), Len(s))
             IN  _clip01(IF hib THEN pct ELSE Sub(Num(1), pct))

\* The lower-is-better inversion forgotten.
percentile_score_noinvert(s0, v, hib) ==
    LET s == NumericDropna(s0)
    IN  IF Len(s) < MinRef \/ IsNaN(v) THEN NaN
        ELSE _clip01(Frac(CountLe(s, v), Len(s)))

\* A sign slip in the lower-is-better branch, with the clip dropped.
percentile_score_signslip(s0, v, hib) ==
    LET s == NumericDropna(s0)
    IN  IF Len(s) < MinRef \/ IsNaN(v) THEN NaN
        ELSE LET pct == Frac(CountLe(s, v), Len(s))
             IN  IF hib THEN pct ELSE Sub(pct, Num(1))

percentile_score(s0, v, hib) ==
    LET s == NumericDropna(s0)
    IN  IF Len(s) < MinRef \/ IsNaN(v) THEN NaN
        ELSE LET pct == Frac(CountLe(s, v), Len(s))
             IN  _clip01(IF hib THEN pct ELSE Sub(Num(1), pct))

(***************************************************************************)
(* Tables.  A table (DataFrame) is [cols, rows]: the set of its column     *)
(* names and the sequence of its rows, a row being a record with one cell  *)
(* per column name the model knows.  A cell of a column that is not in     *)
(* cols is never read.                                                     *)
(*                                                                         *)
(* A timestamp cell is [k |-> "ts", t |-> half-days since 1 Jan of year    *)
(* 0], every year having 365 days.                                         *)
(***************************************************************************)
Ts(t) == [k |-> "ts", t |-> t]

Col(tbl, c) == [i \in 1..Len(tbl.rows) |-> tbl.rows[i][c]]

\* df.get(c): the column, or None (here NaN) when the table has no such column.
HasCol(tbl, c) == c \in tbl.cols

\* Series of numbers: pd.to_numeric(series, errors="coerce")
ToNumericSeries(s) == [i \in 1..Len(s) |-> to_numeric(s[i])]

\* The first days of the twelve months of a 365-day year.
MonthStart == <<0, 31, 59, 90, 120, 151, 181, 212, 243, 273, 304, 334>>

\* .dt.to_period("M"): the calendar month of a timestamp, as months since
\* January of year 0.
MonthOf(ts) ==
    LET day == ts.t \div 2
        y == day \div 365
        doy == day % 365
        m == CHOOSE i \in 1..12 :
                 /\ MonthStart[i] <= doy
                 /\ (i = 12 \/ doy < MonthStart[i + 1])
    IN  12 * y + (m - 1)

RECURSIVE SumRange(_, _, _)
\* The sum of entries lo..hi of a series of numbers (by halves).
SumRange(s, lo, hi) ==
    IF lo > hi THEN Num(0)
    ELSE IF lo = hi THEN s[lo]
    ELSE LET mid == (lo + hi) \div 2
             a == SumRange(s, lo, mid)
             b == SumRange(s, mid + 1, hi)
         IN  Add(a, b)

\* The sum of the first i entries of a series of numbers.
SumSeq(s, i) == SumRange(s, 1, i)

\* The k-th smallest entry of a non-empty series of numbers.
KthSmallest(s, kth) ==
    LET idx == 1..Len(s)
        i == CHOOSE j \in idx :
                 /\ Cardinality({h \in idx : Lt(s[h], s[j])}) < kth
                 /\ kth <= Cardinality({h \in idx : Le(s[h], s[j])})
    IN  s[i]

\* Series.median(): nulls skipped, NaN for an empty series, the mean of the
\* two middle values for an even count.
Median(s0) ==
    LET s == SelectSeq(s0, NotNaN)
        n == Len(s)
    IN  IF n = 0 THEN NaN
        ELSE IF n % 2 = 1 THEN KthSmallest(s, (n + 1) \div 2)
        ELSE Div(Add(KthSmallest(s, n \div 2), KthSmallest(s, n \div 2 + 1)), Num(2))

\* Series.std() (ddof = 1), nulls skipped, NaN below two values.  The
\* standard deviation is represented by its square, the sample variance:
\* the code only compares standard deviations, and x <= y iff x^2 <= y^2
\* for x, y >= 0.
Std(s0) ==
    LET s == SelectSeq(s0, NotNaN)
        n == Len(s)
        sq == [i \in 1..n |-> Mul(s[i], s[i])]
        sum == SumSeq(s, n)
    IN  IF n < 2 THEN NaN
        ELSE Div(Sub(Mul(Num(n), SumSeq(sq, n)), Mul(sum, sum)), Num(n * (n - 1)))

\* The mean with a null counted as 0.
nanmean_zeros(a, b) ==
    IF IsNaN(a) /\ IsNaN(b) THEN NaN
    ELSE Div(Add(IF IsNaN(a) THEN Num(0) ELSE a, IF IsNaN(b) THEN Num(0) ELSE b), Num(2))

\* np.nanmean of two values: the mean of the non-null ones, NaN if none.
nanmean(a, b) ==
    IF IsNaN(a) /\ IsNaN(b) THEN NaN
    ELSE IF IsNaN(a) THEN b
    ELSE IF IsNaN(b) THEN a
    ELSE Div(Add(a, b), Num(2))

\* Nulls counted as 0 in the sum.
nansum_nullable(l, y, r, t) == Add(Add(l, y), Add(r, t))

\* np.nansum of the four pillars: nulls add nothing, 0 if all are null.
nansum(l, y, r, t) ==
    LET z(x) == IF IsNaN(x) THEN Num(0) ELSE x
    IN  Add(Add(z(l), z(y)), Add(z(r), z(t)))

\* 25.0 * x
Points(x) == Mul(Num(PillarMax), x)

(***************************************************************************)
(* The scoring functions.                                                  *)
(***************************************************************************)
MinTrendRows == 30      \* rows needed for a momentum
MinTrendMonths == 6     \* distinct months needed for a momentum
MinDistrictRows == 10   \* rows a district needs in scores_by_district

ScoredCols == <<"price_per_sqm", "days_on_market", "net_yield", "vacancy_days">>

\* The rows of a table that satisfy keep, as a table.
Filter(tbl, keep(_)) == [cols |-> tbl.cols, rows |-> SelectSeq(tbl.rows, keep)]

\* df.dropna(subset=["first_seen", "price_per_sqm"])
DropnaTrend(tbl) ==
    LET keep(r) == NotNaN(r["first_seen"]) /\ NotNaN(r["price_per_sqm"])
    IN  Filter(tbl, keep)

\* d.groupby("month")["price_per_sqm"].median().sort_index(): the months
\* present and the median price of each.
MonthsOf(d) == {MonthOf(d.rows[i]["first_seen"]) : i \in 1..Len(d.rows)}

MonthMedian(d, m) ==
    LET keep(r) == MonthOf(r["first_seen"]) = m
    IN  Median(ToNumericSeries(Col(Filter(d, keep), "price_per_sqm")))

MinOf(S) == CHOOSE x \in S : \A y \in S : x <= y
MaxOf(S) == CHOOSE x \in S : \A y \in S : y <= x

\* (g.iloc[-1] - g.iloc[0]) / g.iloc[0]
Momentum(d) ==
    LET ms == MonthsOf(d)
        g0 == MonthMedian(d, MinOf(ms))
        g1 == MonthMedian(d, MaxOf(ms))
    IN  Div(Sub(g1, g0), g0)

FirstMonthMedian(d) == MonthMedian(d, MinOf(MonthsOf(d)))

\* barzel_score_pdf_only, lines 49-56: the momentum of the view.
trend_view_score(view) ==
    IF HasCol(view, "first_seen") /\ HasCol(view, "price_per_sqm")
    THEN LET d == DropnaTrend(view)
         IN  IF Len(d.rows) >= MinTrendRows /\ Cardinality(MonthsOf(d)) >= MinTrendMonths
             THEN Momentum(d)
             ELSE NaN
    ELSE NaN

\* barzel_score_details, lines 117-124: the same with the guard g.iloc[0] > 0.
trend_view_details(view) ==
    IF HasCol(view, "first_seen") /\ HasCol(view, "price_per_sqm")
    THEN LET d == DropnaTrend(view)
         IN  IF /\ Len(d.rows) >= MinTrendRows
                /\ Cardinality(MonthsOf(d)) >= MinTrendMonths
                /\ Lt(Num(0), FirstMonthMedian(d))
             THEN Momentum(d)
             ELSE NaN
    ELSE NaN

\* The non-null district values of a table (groupby drops null keys).
DistrictsOf(tbl) ==
    {tbl.rows[i]["district"] : i \in 1..Len(tbl.rows)} \ {NaN}

InDistrict(tbl, dv) ==
    LET keep(r) == r["district"] = dv
    IN  Filter(tbl, keep)

SetToSeq(S) ==
    LET RECURSIVE build(_)
        build(R) == IF R = {} THEN <<>>
                    ELSE LET x == CHOOSE y \in R : TRUE
                         IN  <<x>> \o build(R \ {x})
    IN  build(S)

\* Lines 58-67 (and 126-135): one momentum per district of df_all that has
\* enough rows and months and a positive first-month median.
trend_dist(all) ==
    IF HasCol(all, "first_seen") /\ HasCol(all, "price_per_sqm") /\ HasCol(all, "district")
    THEN LET usable(dv) ==
                 LET dd == DropnaTrend(InDistrict(all, dv))
                 IN  /\ Len(dd.rows) >= MinTrendRows
                     /\ Cardinality(MonthsOf(dd)) >= MinTrendMonths
                     /\ Lt(Num(0), FirstMonthMedian(dd))
             ds == SetToSeq({dv \in DistrictsOf(all) : usable(dv)})
         IN  [i \in 1..Len(ds) |-> Momentum(DropnaTrend(InDistrict(all, ds[i])))]
    ELSE <<>>

\* The reference of the risk KPI taken to be the raw prices of df_all.
vol_all_rawprices(all) == ToNumericSeries(Col(all, "price_per_sqm"))

\* Lines 45 and 114: the standard deviation of price_per_sqm of each
\* district of df_all (one entry per non-null district, NaN below two
\* priced rows).
vol_all(all) ==
    LET ds == SetToSeq(DistrictsOf(all))
    IN  [i \in 1..Len(ds) |->
            Std(ToNumericSeries(Col(InDistrict(all, ds[i]), "price_per_sqm")))]

\* pd.Series(df_all.get(c)): the column, empty when it is absent.
SeriesOrEmpty(tbl, c) == IF HasCol(tbl, c) THEN Col(tbl, c) ELSE <<>>

ViewMedian(view, c) == Median(ToNumericSeries(Col(view, c)))

\* An exception raised at a line of scoring_pdf_only.py.
Raised(what, line) == [ok |-> FALSE, error |-> what, line |-> line]

\* The view lacks a scored column: pd.to_numeric(None) is a float, which
\* has no median().
ViewRaises(view) == \E i \in 1..Len(ScoredCols) : ~HasCol(view, ScoredCols[i])

s_trend_of(all, trend) ==
    LET td == trend_dist(all)
    IN  IF Len(td) > 0 THEN percentile_score(td, trend, TRUE) ELSE NaN

\* Lines 32-72: the view's medians scored against df_all, one percentile
\* per KPI, with the view's momentum and volatility they are computed from.
score_locals(all, view) ==
    [s_dom |-> percentile_score(SeriesOrEmpty(all, "days_on_market"),
                                ViewMedian(view, "days_on_market"), FALSE),
     s_yield |-> percentile_score(SeriesOrEmpty(all, "net_yield"),
                                  ViewMedian(view, "net_yield"), TRUE),
     vol_view |-> Std(ToNumericSeries(Col(view, "price_per_sqm"))),
     s_risk |-> percentile_score(vol_all(all),
                                 Std(ToNumericSeries(Col(view, "price_per_sqm"))),
                                 FALSE),
     trend |-> trend_view_score(view),
     s_trend |-> s_trend_of(all, trend_view_score(view)),
     s_vac |-> percentile_score(SeriesOrEmpty(all, "vacancy_days"),
                                ViewMedian(view, "vacancy_days"), FALSE)]

\* Lines 75-78: the four pillars.
score_pillars(L) ==
    [Liquidity |-> Points(nanmean(L.s_dom, L.s_vac)),
     Yield |-> Points(L.s_yield),
     Risk |-> Points(L.s_risk),
     Trend |-> Points(L.s_trend),
     locals |-> L]

\* Lines 80-88: the total and the returned dictionary.
score_result(P) ==
    [ok |-> TRUE,
     Liquidity |-> P.Liquidity, Yield |-> P.Yield, Risk |-> P.Risk,
     Trend |-> P.Trend,
     Total |-> nansum(P.Liquidity, P.Yield, P.Risk, P.Trend),
     locals |-> P.locals]

barzel_score_pdf_only(all, view) ==
    IF ViewRaises(view)
    THEN Raised("AttributeError", 32)
    ELSE IF ~HasCol(all, "price_per_sqm")
    THEN Raised("AttributeError", 45)
    ELSE IF ~HasCol(all, "district")
    THEN Raised("TypeError", 45)
    ELSE score_result(score_pillars(score_locals(all, view)))

\* The points of a KPI taken to be 0 when its percentile is null.
PointsZeroIfNull(x) == IF IsNaN(x) THEN Num(0) ELSE Points(x)

\* Lines 141-147: 25.0 * pct if pct == pct else np.nan
PointsIfNum(x) == IF IsNaN(x) THEN NaN ELSE Points(x)

CountNotNull(s) == Len(SelectSeq(ToNumericSeries(s), NotNaN))

\* Lines 105-139: the view's medians and the percentile of each KPI.
details_locals(all, view) ==
    [p |-> ViewMedian(view, "price_per_sqm"),
     dom |-> ViewMedian(view, "days_on_market"),
     net |-> ViewMedian(view, "net_yield"),
     vac |-> ViewMedian(view, "vacancy_days"),
     pct_dom |-> percentile_score(Col(all, "days_on_market"),
                                  ViewMedian(view, "days_on_market"), FALSE),
     pct_yield |-> percentile_score(Col(all, "net_yield"),
                                    ViewMedian(view, "net_yield"), TRUE),
     vol_view |-> Std(ToNumericSeries(Col(view, "price_per_sqm"))),
     pct_risk |-> percentile_score(vol_all(all),
                                   Std(ToNumericSeries(Col(view, "price_per_sqm"))),
                                   FALSE),
     trend |-> trend_view_details(view),
     pct_trend |-> s_trend_of(all, trend_view_details(view)),
     pct_vac |-> percentile_score(Col(all, "vacancy_days"),
                                  ViewMedian(view, "vacancy_days"), FALSE),
     n_all |-> [price |-> CountNotNull(Col(all, "price_per_sqm")),
                dom |-> CountNotNull(Col(all, "days_on_market")),
                yield |-> CountNotNull(Col(all, "net_yield")),
                vacancy |-> CountNotNull(Col(all, "vacancy_days"))]]

\* Lines 141-147: the points of each KPI and the pillars.
details_points(L) ==
    [pts_dom |-> PointsIfNum(L.pct_dom),
     pts_vac |-> PointsIfNum(L.pct_vac),
     liquidity |-> IF NotNaN(PointsIfNum(L.pct_dom)) \/ NotNaN(PointsIfNum(L.pct_vac))
                   THEN nanmean(PointsIfNum(L.pct_dom), PointsIfNum(L.pct_vac))
                   ELSE NaN,
     yield_ |-> PointsIfNum(L.pct_yield),
     risk |-> PointsIfNum(L.pct_risk),
     trend_ |-> PointsIfNum(L.pct_trend),
     locals |-> L]

\* Lines 149-180: the rows, the totals and the returned dictionary.
details_result(P) ==
    [ok |-> TRUE,
     inputs |-> [price_median |-> P.locals.p, dom_median |-> P.locals.dom,
                 net_yield_median |-> P.locals.net,
                 vacancy_median |-> P.locals.vac,
                 price_volatility |-> P.locals.vol_view,
                 trend |-> P.locals.trend],
     n_all |-> P.locals.n_all,
     rows |-> <<[pillar |-> "Liquidity", kpi |-> "days_on_market (median)",
                 pct |-> P.locals.pct_dom, points |-> P.pts_dom],
                [pillar |-> "Liquidity", kpi |-> "vacancy_days (median)",
                 pct |-> P.locals.pct_vac, points |-> P.pts_vac],
                [pillar |-> "Yield", kpi |-> "net_yield (median)",
                 pct |-> P.locals.pct_yield, points |-> P.yield_],
                [pillar |-> "Risk", kpi |-> "price_per_sqm dispersion (std)",
                 pct |-> P.locals.pct_risk, points |-> P.risk],
                [pillar |-> "Trend", kpi |-> "price momentum (6M+)",
                 pct |-> P.locals.pct_trend, points |-> P.trend_]>>,
     totals |-> [Liquidity |-> P.liquidity, Yield |-> P.yield_, Risk |-> P.risk,
                 Trend |-> P.trend_,
                 Total |-> nansum(P.liquidity, P.yield_, P.risk, P.trend_)]]

barzel_score_details(all, view) ==
    IF ViewRaises(view)
    THEN Raised("AttributeError", 105)
    ELSE IF ~HasCol(all, "days_on_market")
    THEN Raised("AttributeError", 110)
    ELSE IF ~HasCol(all, "net_yield")
    THEN Raised("AttributeError", 111)
    ELSE IF ~HasCol(all, "price_per_sqm")
    THEN Raised("AttributeError", 114)
    ELSE IF ~HasCol(all, "district")
    THEN Raised("TypeError", 114)
    ELSE IF ~HasCol(all, "vacancy_days")
    THEN Raised("AttributeError", 139)
    ELSE details_result(details_points(details_locals(all, view)))

\* The district names of the market, in sorted order.
DistrictNames ==
    <<"D01", "D02", "D03", "D04", "D05", "D06", "D07", "D08", "D09", "D10",
      "D11", "D12", "D13", "D14">>

\* str(x) of a district value or of a requested name: text is itself, a
\* null prints as "nan".
StrOf(c) == IF c.k = "str" THEN c.s ELSE "nan"

NameIndex(c) == CHOOSE i \in 1..Len(DistrictNames) : DistrictNames[i] = c.s

RECURSIVE SortedNames(_)
\* sorted(...) of a set of district names.
SortedNames(S) ==
    IF S = {} THEN <<>>
    ELSE LET x == CHOOSE y \in S : \A z \in S : NameIndex(y) <= NameIndex(z)
         IN  <<x>> \o SortedNames(S \ {x})

\* df_view[df_view["district"].astype(str) == str(d)]
SubView(view, d) ==
    LET keep(r) == StrOf(r["district"]) = StrOf(d)
    IN  Filter(view, keep)

\* The districts scored: the argument, or when it is None or empty the
\* sorted distinct non-null districts of the view.
d_list(view, arg) ==
    IF arg.given /\ Len(arg.list) > 0 THEN arg.list
    ELSE SortedNames(DistrictsOf(view))

\* A district needs more than MinDistrictRows rows.
EnoughRows_strict(sub) == Len(sub.rows) > MinDistrictRows

\* not (len(sub) < 10)
EnoughRows(sub) == ~(Len(sub.rows) < MinDistrictRows)

\* Line 195: {"District": str(d), **s}
score_row(s, d) ==
    IF s.ok
    THEN [ok |-> TRUE, district |-> StrOf(d),
          Liquidity |-> s.Liquidity, Yield |-> s.Yield,
          Risk |-> s.Risk, Trend |-> s.Trend, Total |-> s.Total]
    ELSE s

\* One loop iteration (lines 193-195): the row of district d.
district_row(all, view, d) == score_row(barzel_score_pdf_only(all, SubView(view, d)), d)

\* The loop stops at the first iteration that raises.
loop_result(out) ==
    IF \E i \in 1..Len(out) : ~out[i].ok
    THEN out[CHOOSE i \in 1..Len(out) :
                ~out[i].ok /\ \A h \in 1..(i - 1) : out[h].ok]
    ELSE [ok |-> TRUE, rows |-> out]

kept_districts(view, dl) == SelectSeq(dl, LAMBDA d : EnoughRows(SubView(view, d)))

district_rows(all, view, kept) ==
    [i \in 1..Len(kept) |-> district_row(all, view, kept[i])]

barzel_scores_by_district(all, view, arg) ==
    IF ~HasCol(view, "district") THEN [ok |-> TRUE, rows |-> <<>>]
    ELSE loop_result(district_rows(all, view,
                                   kept_districts(view, d_list(view, arg))))

(***************************************************************************)
(* processing/facts.py: add_facts.  Here a row is a function from the      *)
(* columns of its table to cells.  Besides the cells above, a cell may be  *)
(* a boolean [k |-> "bool", b].  In a numeric column a "num" cell stands   *)
(* for a number or for text that spells it, and a "str" cell for text      *)
(* that spells none; in a datetime column a "ts" cell stands for a         *)
(* timestamp or for text that spells one.                                  *)
(***************************************************************************)
PriceMin == 2000
PriceMax == 400000
DomMin == 0
DomMax == 3650
YieldMin == -5
YieldMax == 40
ChargeMin == 0
ChargeMax == 100000
VacancyMin == 0
VacancyMax == 3650

Bool(b) == [k |-> "bool", b |-> b]

DatetimeCols == {"first_seen", "last_seen", "scraped_at"}

NumericBaseCols ==
    {"weighted_price_per_sqm_aed", "price_per_sqm_aed", "sale_price_aed", "price",
     "size_sqm", "service_charge_aed_per_sqm_year", "gross_yield_pct",
     "net_yield_est_pct", "net_yield_adj_vacancy_pct", "days_on_market",
     "vacancy_days_est", "floor", "total_floors", "bedrooms", "bathrooms"}

\* pd.to_datetime(x, errors="coerce", utc=True) on one cell.
to_datetime(c) == IF c.k = "ts" THEN c ELSE NaN

\* out[c] = conv(out[c]) for the columns of S that the table has.
CoerceCols(tbl, S, conv(_)) ==
    [cols |-> tbl.cols,
     rows |-> [i \in 1..Len(tbl.rows) |->
                 [x \in tbl.cols |-> IF x \in S THEN conv(tbl.rows[i][x])
                                     ELSE tbl.rows[i][x]]]]

\* out[c] = val(row), row by row: the column is added or overwritten.
Assign(tbl, c, val(_)) ==
    [cols |-> tbl.cols \cup {c},
     rows |-> [i \in 1..Len(tbl.rows) |->
                 [x \in tbl.cols \cup {c} |-> IF x = c THEN val(tbl.rows[i])
                                              ELSE tbl.rows[i][x]]]]

\* The test of a source column with the column's presence alone.
notna_any_present(tbl, c) == HasCol(tbl, c)

\* c in out.columns and out[c].notna().any()
notna_any(tbl, c) == HasCol(tbl, c) /\ \E i \in 1..Len(tbl.rows) : NotNaN(tbl.rows[i][c])

\* Lines 8-10.
normalize_datetimes(out) == CoerceCols(out, DatetimeCols, to_datetime)

\* Lines 13-31.
coerce_numeric(out) == CoerceCols(out, NumericBaseCols, to_numeric)

\* Lines 41-45: the column the price is taken from, "" for None.
price_col(out) ==
    IF notna_any(out, "sale_price_aed") THEN "sale_price_aed"
    ELSE IF notna_any(out, "price") THEN "price"
    ELSE ""

\* Lines 48-49: price / size with a size of 0 replaced by a null.
PriceOverSize(price, size) ==
    IF IsNaN(size) \/ size = Num(0) THEN NaN ELSE Div(price, size)

\* Lines 35-51.
canonical_price(out) ==
    IF notna_any(out, "weighted_price_per_sqm_aed")
    THEN Assign(out, "price_per_sqm", LAMBDA r : r["weighted_price_per_sqm_aed"])
    ELSE IF notna_any(out, "price_per_sqm_aed")
    THEN Assign(out, "price_per_sqm", LAMBDA r : r["price_per_sqm_aed"])
    ELSE IF price_col(out) # "" /\ HasCol(out, "size_sqm")
    THEN Assign(out, "price_per_sqm",
                LAMBDA r : PriceOverSize(r[price_col(out)], r["size_sqm"]))
    ELSE Assign(out, "price_per_sqm", LAMBDA r : NaN)

OutOfBounds(x, lo, hi) == NotNaN(x) /\ (Lt(x, Num(lo)) \/ Lt(Num(hi), x))

\* The guardrail with the value moved to the nearer bound.
guard_clamped(out, c, lo, hi) ==
    Assign(out, c, LAMBDA r : IF NotNaN(r[c]) /\ Lt(r[c], Num(lo)) THEN Num(lo)
                              ELSE IF NotNaN(r[c]) /\ Lt(Num(hi), r[c]) THEN Num(hi)
                              ELSE r[c])

\* out.loc[(out[c] < lo) | (out[c] > hi), c] = pd.NA
guard(out, c, lo, hi) ==
    Assign(out, c, LAMBDA r : IF OutOfBounds(r[c], lo, hi) THEN NaN ELSE r[c])

\* (last - first).dt.days: whole days, rounded down; null without a first.
DaysBetween(first, lst) ==
    IF IsNaN(first) THEN NaN ELSE Num((lst.t - first.t) \div 2)

\* Line 65 with no last_seen column: last is pd.NaT, which has no fillna.
days_raises(out) ==
    ~notna_any(out, "days_on_market") /\ HasCol(out, "first_seen")
    /\ ~HasCol(out, "last_seen")

\* Lines 59-68 (when line 66 does not raise).
canonical_days(out, utcnow) ==
    IF notna_any(out, "days_on_market")
    THEN CoerceCols(out, {"days_on_market"}, to_numeric)
    ELSE IF HasCol(out, "first_seen")
    THEN Assign(out, "days_on_market",
                LAMBDA r : DaysBetween(r["first_seen"],
                                       IF IsNaN(r["last_seen"]) THEN utcnow
                                       ELSE r["last_seen"]))
    ELSE Assign(out, "days_on_market", LAMBDA r : NaN)

\* The source chosen row by row: the first column of srcs with a value for
\* the row.
FirstSourcePerRow(out, c, srcs) ==
    Assign(out, c,
           LAMBDA r : IF \E k \in 1..Len(srcs) : HasCol(out, srcs[k]) /\ NotNaN(r[srcs[k]])
                      THEN r[srcs[CHOOSE k \in 1..Len(srcs) :
                                    /\ HasCol(out, srcs[k]) /\ NotNaN(r[srcs[k]])
                                    /\ \A h \in 1..(k - 1) :
                                         ~(HasCol(out, srcs[h]) /\ NotNaN(r[srcs[h]]))]]
                      ELSE NaN)

\* The text lower-cased and stripped of its blanks.
LowerStripped(s) ==
    CASE s = "Yes"  -> "yes"
      [] s = "TRUE" -> "true"
      [] s = "YES " -> "yes"
      [] OTHER      -> s

\* out[c] = out[src] for the first column of srcs that has a value, or null.
FirstSource(out, c, srcs) ==
    IF \E k \in 1..Len(srcs) : notna_any(out, srcs[k])
    THEN Assign(out, c,
                LAMBDA r : r[srcs[CHOOSE k \in 1..Len(srcs) :
                                    /\ notna_any(out, srcs[k])
                                    /\ \A h \in 1..(k - 1) : ~notna_any(out, srcs[h])]])
    ELSE Assign(out, c, LAMBDA r : NaN)

\* Lines 74-88.
canonical_yields(out) ==
    guard(guard(FirstSource(FirstSource(out, "net_yield",
                                        <<"net_yield_adj_vacancy_pct", "net_yield_est_pct">>),
                            "gross_yield", <<"gross_yield_pct">>),
                "net_yield", YieldMin, YieldMax),
          "gross_yield", YieldMin, YieldMax)

\* Lines 91-97.
canonical_charge(out) ==
    guard(FirstSource(out, "service_charge_psm_year",
                      <<"service_charge_aed_per_sqm_year">>),
          "service_charge_psm_year", ChargeMin, ChargeMax)

\* Lines 100-105.
canonical_vacancy(out) ==
    guard(FirstSource(out, "vacancy_days", <<"vacancy_days_est">>),
          "vacancy_days", VacancyMin, VacancyMax)

\* str.lower() of the texts the tables hold.
Lower(s) ==
    CASE s = "Yes"  -> "yes"
      [] s = "TRUE" -> "true"
      [] s = "YES " -> "yes "
      [] OTHER      -> s

\* The column holds floats: numbers only, one of them null or fractional.
IsFloatColumn(tbl, c) ==
    /\ \A i \in 1..Len(tbl.rows) : tbl.rows[i][c].k \in {"num", "nan", "inf"}
    /\ \E i \in 1..Len(tbl.rows) :
         tbl.rows[i][c].k \in {"nan", "inf"} \/ tbl.rows[i][c].d # 1

\* astype(str).str.lower() of one cell: an integer prints without a
\* decimal point, a float with one.
LowerText(tbl, c, x) ==
    CASE x.k = "str"  -> Lower(x.s)
      [] x.k = "bool" -> IF x.b THEN "true" ELSE "false"
      [] x.k = "num"  -> IF x = Num(1) /\ ~IsFloatColumn(tbl, c) THEN "1" ELSE "number"
      [] OTHER        -> "nan"

\* Lines 108-117.
canonical_terrace(out) ==
    Assign(IF HasCol(out, "has_terrace")
           THEN Assign(out, "has_terrace",
                       LAMBDA r : Bool(LowerText(out, "has_terrace", r["has_terrace"])
                                         \in {"1", "true", "yes"}))
           ELSE Assign(out, "has_terrace", LAMBDA r : NaN),
           "terrace_size_sqm",
           LAMBDA r : IF HasCol(out, "terrace_size_sqm")
                      THEN to_numeric(r["terrace_size_sqm"]) ELSE NaN)

\* Lines 5-56: the copy, the coercions and the price.
facts_price(df) ==
    guard(canonical_price(coerce_numeric(normalize_datetimes(df))),
          "price_per_sqm", PriceMin, PriceMax)

\* Lines 59-119.
facts_rest(out, utcnow) ==
    canonical_terrace(canonical_vacancy(canonical_charge(canonical_yields(
        guard(canonical_days(out, utcnow), "days_on_market", DomMin, DomMax)))))

\* The caller's table after the call if add_facts wrote to df itself.
caller_df_aliased(df, res) == IF res.ok THEN res.out ELSE df

\* Line 5: out = df.copy().  Every assignment of lines 8-117 is to out, so
\* the caller's table after a call that gave res is df as it was.
caller_df(df, res) == df

\* add_facts(df), utcnow being what pd.Timestamp.utcnow() returns.
add_facts(df, utcnow) ==
    IF days_raises(facts_price(df))
    THEN Raised("AttributeError", 66)
    ELSE [ok |-> TRUE, out |-> facts_rest(facts_price(df), utcnow)]

(***************************************************************************)
(* analytics/kpi_engine.py: weighted_median.  The two series share their   *)
(* index: values[i] and weights[i] belong to row i.                        *)
(***************************************************************************)
\* Lines 6-9: the rows kept, as records [v, w] of numbers, in row order.
wm_eligible(values, weights) ==
    LET keep(r) == NotNaN(r.v) /\ NotNaN(r.w) /\ Lt(Num(0), r.w)
    IN  SelectSeq([i \in 1..Len(values) |->
                     [v |-> to_numeric(values[i]), w |-> to_numeric(weights[i])]],
                  keep)

\* The permutations of 1..n.
Perms(n) == {o \in [1..n -> 1..n] : \A i, j \in 1..n : o[i] = o[j] => i = j}

\* Line 12: np.argsort(v.values).  The default sort is not stable: any
\* order that puts the values in ascending order may come out.
argsort(e) ==
    {o \in Perms(Len(e)) : \A i \in 1..(Len(e) - 1) : Le(e[o[i]].v, e[o[i + 1]].v)}

\* Line 15: np.cumsum(w_sorted)
cumsum(w) == [i \in 1..Len(w) |-> SumRange(w, 1, i)]

\* np.searchsorted(csum, cutoff, side="right"): past the entries <= cutoff.
searchsorted_right(csum, cutoff) ==
    IF \E i \in 1..Len(csum) : Lt(cutoff, csum[i])
    THEN CHOOSE i \in 1..Len(csum) :
            Lt(cutoff, csum[i]) /\ \A h \in 1..(i - 1) : ~Lt(cutoff, csum[h])
    ELSE Len(csum) + 1

\* Line 17: np.searchsorted(csum, cutoff): the first position (from 1)
\* whose entry is >= cutoff, one past the end if there is none.
searchsorted(csum, cutoff) ==
    IF \E i \in 1..Len(csum) : Le(cutoff, csum[i])
    THEN CHOOSE i \in 1..Len(csum) :
            Le(cutoff, csum[i]) /\ \A h \in 1..(i - 1) : ~Le(cutoff, csum[h])
    ELSE Len(csum) + 1

\* Lines 13-17 on the eligible rows e sorted by the order o.
wm_pick(v_sorted, w_sorted) ==
    v_sorted[searchsorted(cumsum(w_sorted),
                          Div(SumRange(w_sorted, 1, Len(w_sorted)), Num(2)))]

wm_sorted(e, o) ==
    wm_pick([i \in 1..Len(e) |-> e[o[i]].v], [i \in 1..Len(e) |-> e[o[i]].w])

\* weighted_median(values, weights), pick choosing the order argsort
\* returns among those it may return.
weighted_median(e, pick) ==
    IF Len(e) = 0 THEN NaN ELSE wm_sorted(e, pick)

(***************************************************************************)
(* analytics/aggregations.py: group_stats.  A standard deviation is        *)
(* reported by its square.                                                 *)
(***************************************************************************)
MinN == 10          \* the default min_n

\* s.quantile(qn / qd), linear interpolation, of a series of numbers.
Quantile(s, qn, qd) ==
    LET h == (Len(s) - 1) * qn
        lo == h \div qd
        x0 == KthSmallest(s, lo + 1)
    IN  IF h % qd = 0 THEN x0
        ELSE Add(x0, Mul(Frac(h % qd, qd), Sub(KthSmallest(s, lo + 2), x0)))

\* Lines 9-13 with qs = (0.1, 0.25, 0.5, 0.75, 0.9).
safe_quantiles(s0) ==
    IF Len(NumericDropna(s0)) = 0
    THEN [q10 |-> NaN, q25 |-> NaN, q50 |-> NaN, q75 |-> NaN, q90 |-> NaN]
    ELSE [q10 |-> Quantile(NumericDropna(s0), 1, 10),
          q25 |-> Quantile(NumericDropna(s0), 1, 4),
          q50 |-> Quantile(NumericDropna(s0), 1, 2),
          q75 |-> Quantile(NumericDropna(s0), 3, 4),
          q90 |-> Quantile(NumericDropna(s0), 9, 10)]

\* s.mean() of a series of numbers (nulls skipped).
Mean(s0) ==
    IF Len(NumericDropna(s0)) = 0 THEN NaN
    ELSE Div(SumSeq(NumericDropna(s0), Len(NumericDropna(s0))),
             Num(Len(NumericDropna(s0))))

\* Lines 16-23.
weighted_mean(values, weights) ==
    IF Len(wm_eligible(values, weights)) = 0 THEN NaN
    ELSE Div(SumSeq([i \in 1..Len(wm_eligible(values, weights)) |->
                       Mul(wm_eligible(values, weights)[i].v,
                           wm_eligible(values, weights)[i].w)],
                    Len(wm_eligible(values, weights))),
             SumSeq([i \in 1..Len(wm_eligible(values, weights)) |->
                       wm_eligible(values, weights)[i].w],
                    Len(wm_eligible(values, weights))))

\* Lines 38-39: group_cols is a column name or a list of names.
gs_group_cols(args) ==
    IF args.group_cols.str THEN <<args.group_cols.name>> ELSE args.group_cols.list

\* Line 40.
gs_missing(df, args) ==
    \/ \E k \in 1..Len(gs_group_cols(args)) : ~HasCol(df, gs_group_cols(args)[k])
    \/ ~HasCol(df, args.value_col)

\* Lines 49, 64: weight_col is given and is a column.
gs_weighted(df, args) == args.weight_col # "" /\ HasCol(df, args.weight_col)

\* Lines 43-45: the rows with every group key and a numeric value.
gs_clean(df, args) ==
    SelectSeq(df.rows,
              LAMBDA r : /\ NotNaN(to_numeric(r[args.value_col]))
                         /\ \A k \in 1..Len(gs_group_cols(args)) :
                              NotNaN(r[gs_group_cols(args)[k]]))

\* The key of a row: its cells in the group columns.
gs_key(r, args) == [k \in 1..Len(gs_group_cols(args)) |-> r[gs_group_cols(args)[k]]]

\* A group needs more than min_n values.
gs_enough_strict(n, min_n) == n > min_n

\* Lines 55-56: not (n < min_n)
gs_enough(n, min_n) == ~(n < min_n)

\* Lines 54-66: the row reported for the group sub.
gs_row(sub, key, df, args) ==
    LET vals == [i \in 1..Len(sub) |-> sub[i][args.value_col]]
    IN  IF gs_weighted(df, args)
        THEN [key |-> key, n |-> Len(sub), q |-> safe_quantiles(vals),
              mean |-> Mean(vals), std |-> Std(NumericDropna(vals)),
              wmean |-> weighted_mean(vals, [i \in 1..Len(sub) |->
                                                sub[i][args.weight_col]])]
        ELSE [key |-> key, n |-> Len(sub), q |-> safe_quantiles(vals),
              mean |-> Mean(vals), std |-> Std(NumericDropna(vals))]

\* Lines 52-66: the rows of the groups that have enough values, in the
\* order of the loop.
gs_rows(df, args) ==
    LET d == IF gs_missing(df, args) THEN <<>> ELSE gs_clean(df, args)
        keys == SetToSeq({k \in {gs_key(d[i], args) : i \in 1..Len(d)} :
                            gs_enough(Len(SelectSeq(d, LAMBDA r : gs_key(r, args) = k)),
                                      args.min_n)})
    IN  [j \in 1..Len(keys) |->
           gs_row(SelectSeq(d, LAMBDA r : gs_key(r, args) = keys[j]), keys[j], df, args)]

\* Line 69: out.sort_values("n", ascending=False).  The default sort is
\* not stable: rows with equal n may come out in any order.
sort_values_n(rows) ==
    {o \in Perms(Len(rows)) : \A i \in 1..(Len(rows) - 1) : rows[o[i]].n >= rows[o[i + 1]].n}

\* Lines 40-47 and 68-69, for the rows of the loop and the order pick that
\* the sort returns.
gs_return(df, args, rows, pick) ==
    IF gs_missing(df, args) THEN [ok |-> TRUE, rows |-> <<>>]
    ELSE IF Len(gs_clean(df, args)) = 0 THEN [ok |-> TRUE, rows |-> <<>>]
    ELSE IF Len(rows) = 0 THEN Raised("KeyError", 69)
    ELSE [ok |-> TRUE, rows |-> [i \in 1..Len(rows) |-> rows[pick[i]]]]

\* group_stats(df, group_cols, value_col, weight_col, min_n)
group_stats(df, args, pick) == gs_return(df, args, gs_rows(df, args), pick)

(***************************************************************************)
(* analytics/kpi_engine.py, advanced_kpis.py and market_views.py: the KPI  *)
(* blocks, the advanced KPIs, snapshot and snapshots_by.  A standard       *)
(* deviation is reported by its square, and so is a ratio with a standard  *)
(* deviation in it (the correlation, the coefficient of variation, the     *)
(* yield efficiency), the square carrying the sign of the ratio.           *)
(***************************************************************************)
MinCorrRows == 10   \* rows needed for the price / days correlation
MinKpiRows == 10    \* values needed by the advanced KPIs
FastDays30 == 30
FastDays60 == 60

\* pd.to_numeric(df.get(c), errors="coerce") for a column the table has.
NumCol(df, c) == ToNumericSeries(Col(df, c))

\* s.quantile(qn / qd): nulls skipped, NaN for a series without values.
SeriesQuantile(s, qn, qd) ==
    IF Len(NumericDropna(s)) = 0 THEN NaN ELSE Quantile(NumericDropna(s), qn, qd)

\* Lines 24-31.
kpi_pricing(df) ==
    [median_price_sqm |-> Median(NumCol(df, "price_per_sqm")),
     p25_price_sqm |-> SeriesQuantile(NumCol(df, "price_per_sqm"), 1, 4),
     p75_price_sqm |-> SeriesQuantile(NumCol(df, "price_per_sqm"), 3, 4),
     price_dispersion_std |-> Std(NumCol(df, "price_per_sqm"))]

\* The fast-sale ratio taken over the known values only.
fast_sale_ratio_known(dom, days) ==
    IF Len(SelectSeq(dom, NotNaN)) = 0 THEN NaN
    ELSE Frac(CountLe(dom, Num(days)), Len(SelectSeq(dom, NotNaN)))

\* Lines 40-41: float((dom <= days).mean()) if len(dom) else np.nan
fast_sale_ratio(dom, days) ==
    IF Len(dom) = 0 THEN NaN ELSE Frac(CountLe(dom, Num(days)), Len(dom))

\* Line 45: the rows with a price and a days_on_market, as [v, w] records.
corr_clean(p, dom) ==
    SelectSeq([i \in 1..Len(p) |-> [v |-> p[i], w |-> dom[i]]],
              LAMBDA r : NotNaN(r.v) /\ NotNaN(r.w))

\* n * sum(x * y) - sum(x) * sum(y)
CoSum(x, y) ==
    Sub(Mul(Num(Len(x)), SumSeq([i \in 1..Len(x) |-> Mul(x[i], y[i])], Len(x))),
        Mul(SumSeq(x, Len(x)), SumSeq(y, Len(y))))

\* Series.corr (Pearson) of two series of numbers, by its signed square;
\* NaN when a series is constant.
Corr(x, y) ==
    IF CoSum(x, x) = Num(0) \/ CoSum(y, y) = Num(0) THEN NaN
    ELSE Mul(Num(Sign(CoSum(x, y))),
             Div(Mul(CoSum(x, y), CoSum(x, y)), Mul(CoSum(x, x), CoSum(y, y))))

\* Line 46.
overpricing_penalty_corr(clean) ==
    IF Len(clean) >= MinCorrRows
    THEN Corr([i \in 1..Len(clean) |-> clean[i].v], [i \in 1..Len(clean) |-> clean[i].w])
    ELSE NaN

\* Lines 34-47.
kpi_liquidity(df) ==
    [median_dom |-> Median(NumCol(df, "days_on_market")),
     p25_dom |-> SeriesQuantile(NumCol(df, "days_on_market"), 1, 4),
     p75_dom |-> SeriesQuantile(NumCol(df, "days_on_market"), 3, 4),
     fast_sale_ratio_30d |-> fast_sale_ratio(NumCol(df, "days_on_market"), FastDays30),
     fast_sale_ratio_60d |-> fast_sale_ratio(NumCol(df, "days_on_market"), FastDays60),
     overpricing_penalty_corr |->
        overpricing_penalty_corr(corr_clean(NumCol(df, "price_per_sqm"),
                                            NumCol(df, "days_on_market")))]

\* The median gross yield minus the median net yield.
vacancy_drag_of_medians(gross, net) == Sub(Median(gross), Median(net))

\* gross - net, row by row.
SeriesDiff(g, n) == [i \in 1..Len(g) |-> Sub(g[i], n[i])]

\* Line 60.
vacancy_drag_median(gross, net) ==
    IF Len(NumericDropna(gross)) > 0 /\ Len(NumericDropna(net)) > 0
    THEN Median(SeriesDiff(gross, net))
    ELSE NaN

\* Lines 50-61.
kpi_yield(df) ==
    [gross_yield_median |-> Median(NumCol(df, "gross_yield")),
     net_yield_median |-> Median(NumCol(df, "net_yield")),
     net_yield_dispersion_std |-> Std(NumCol(df, "net_yield")),
     vacancy_days_median |-> Median(NumCol(df, "vacancy_days")),
     vacancy_drag_median |-> vacancy_drag_median(NumCol(df, "gross_yield"),
                                                 NumCol(df, "net_yield"))]

\* Lines 64-69.
kpi_costs(df) ==
    [service_charge_median |-> Median(NumCol(df, "service_charge_psm_year")),
     service_charge_dispersion_std |-> Std(NumCol(df, "service_charge_psm_year"))]

\* bool(x) of a non-null cell.
Truthy(x) ==
    CASE x.k = "bool" -> x.b
      [] x.k = "num"  -> x.n # 0
      [] x.k = "str"  -> x.s # ""
      [] OTHER        -> TRUE

\* Lines 76-81: pd.Series(ht).dropna().astype(bool).mean()
terrace_rate(df) ==
    IF ~HasCol(df, "has_terrace") THEN NaN
    ELSE IF Len(SelectSeq(Col(df, "has_terrace"), NotNaN)) = 0 THEN NaN
    ELSE Frac(Len(SelectSeq(SelectSeq(Col(df, "has_terrace"), NotNaN), Truthy)),
              Len(SelectSeq(Col(df, "has_terrace"), NotNaN)))

\* Lines 72-86.
kpi_terrace(df) ==
    [terrace_rate |-> terrace_rate(df),
     terrace_size_median |-> Median(NumCol(df, "terrace_size_sqm"))]

\* advanced_kpis.py lines 9-21; the square of std / mean.
price_consistency_index(df) ==
    IF Len(NumericDropna(NumCol(df, "price_per_sqm"))) < MinKpiRows THEN NaN
    ELSE IF Le(Mean(NumCol(df, "price_per_sqm")), Num(0)) THEN NaN
    ELSE Div(Std(NumCol(df, "price_per_sqm")),
             Mul(Mean(NumCol(df, "price_per_sqm")), Mean(NumCol(df, "price_per_sqm"))))

\* advanced_kpis.py lines 46-56.
liquidity_depth_ratio(df) ==
    IF ~IsNum(Median(NumCol(df, "days_on_market")))
       \/ Le(Median(NumCol(df, "days_on_market")), Num(0))
    THEN NaN
    ELSE Div(Num(Len(df.rows)), Median(NumCol(df, "days_on_market")))

\* advanced_kpis.py lines 59-71; the signed square of median / std.
yield_efficiency_ratio(df) ==
    IF Len(NumericDropna(NumCol(df, "net_yield"))) < MinKpiRows
       \/ Len(NumericDropna(NumCol(df, "price_per_sqm"))) < MinKpiRows
    THEN NaN
    ELSE IF Le(Std(NumCol(df, "price_per_sqm")), Num(0)) THEN NaN
    ELSE Mul(Num(Sign(Median(NumCol(df, "net_yield")))),
             Div(Mul(Median(NumCol(df, "net_yield")), Median(NumCol(df, "net_yield"))),
                 Std(NumCol(df, "price_per_sqm"))))

\* advanced_kpis.py lines 74-82.
vacancy_drag_index(df) ==
    Median(SeriesDiff(NumCol(df, "gross_yield"), NumCol(df, "net_yield")))

\* advanced_kpis.py lines 85-97.
cost_to_yield_ratio(df) ==
    IF Len(NumericDropna(NumCol(df, "service_charge_psm_year"))) < MinKpiRows
       \/ Len(NumericDropna(NumCol(df, "net_yield"))) < MinKpiRows
    THEN NaN
    ELSE IF ~IsNum(Median(NumCol(df, "net_yield")))
            \/ Median(NumCol(df, "net_yield")) = Num(0)
    THEN NaN
    ELSE Div(Median(NumCol(df, "service_charge_psm_year")),
             Mul(Num(Sign(Median(NumCol(df, "net_yield")))),
                 Median(NumCol(df, "net_yield"))))

\* The columns snapshot reads through df.get and pd.to_numeric, with the
\* line that first uses each as a series.
SnapshotCols ==
    <<[col |-> "price_per_sqm", line |-> 27],
      [col |-> "days_on_market", line |-> 37],
      [col |-> "gross_yield", line |-> 56],
      [col |-> "net_yield", line |-> 57],
      [col |-> "vacancy_days", line |-> 59],
      [col |-> "service_charge_psm_year", line |-> 67],
      [col |-> "terrace_size_sqm", line |-> 85]>>

\* The places of SnapshotCols whose column the table lacks: df.get gives
\* None, pd.to_numeric(None) a float, and a float has no notna().
snapshot_missing(df) == {k \in 1..Len(SnapshotCols) : ~HasCol(df, SnapshotCols[k].col)}

\* The line of kpi_engine.py at which snapshot raises.
snapshot_raise_line(df) ==
    SnapshotCols[CHOOSE k \in snapshot_missing(df) :
                    \A h \in snapshot_missing(df) : k <= h].line

\* market_views.py lines 33-37.
advanced_kpis(df) ==
    [price_consistency_cv |-> price_consistency_index(df),
     liquidity_depth_ratio |-> liquidity_depth_ratio(df),
     yield_efficiency_ratio |-> yield_efficiency_ratio(df),
     vacancy_drag_index |-> vacancy_drag_index(df),
     cost_to_yield_ratio |-> cost_to_yield_ratio(df)]

\* market_views.py lines 21-41, for a table with every column of
\* SnapshotCols.
snapshot_bundle(df) ==
    [n_obs |-> Len(df.rows)] @@ kpi_pricing(df) @@ kpi_liquidity(df) @@ kpi_yield(df)
      @@ kpi_costs(df) @@ kpi_terrace(df) @@ advanced_kpis(df)

\* snapshot(df)
snapshot(df) ==
    IF snapshot_missing(df) # {}
    THEN Raised("AttributeError", snapshot_raise_line(df))
    ELSE [ok |-> TRUE, kpis |-> snapshot_bundle(df)]

\* market_views.py line 48: df.groupby(group_col, dropna=True), the keys.
group_keys(df, group_col) ==
    {Col(df, group_col)[i] : i \in {j \in 1..Len(df.rows) : NotNaN(Col(df, group_col)[j])}}

\* Every row of the table for each group.
group_sub_all(df, group_col, key) == df

\* market_views.py line 48: the rows of a group.
group_sub(df, group_col, key) ==
    [cols |-> df.cols, rows |-> SelectSeq(df.rows, LAMBDA r : r[group_col] = key)]

\* market_views.py lines 47-52, for the keys in the order of the loop.
snapshots_rows(df, group_col, keys) ==
    IF \E j \in 1..Len(keys) : ~snapshot(group_sub(df, group_col, keys[j])).ok
    THEN snapshot(group_sub(df, group_col, keys[1]))
    ELSE [ok |-> TRUE,
          rows |-> [j \in 1..Len(keys) |->
                      [key |-> keys[j],
                       kpis |-> snapshot(group_sub(df, group_col, keys[j])).kpis]]]

\* snapshots_by(df, group_col)
snapshots_by(df, group_col) ==
    IF ~HasCol(df, group_col) THEN [ok |-> TRUE, rows |-> <<>>]
    ELSE snapshots_rows(df, group_col, SortedNames(group_keys(df, group_col)))

(***************************************************************************)
(* analytics/advanced_kpis.py: terrace_premium.                            *)
(***************************************************************************)
MinTerraceRows == 20

\* x == True and x == False of a non-null cell: the number 1 equals True,
\* the number 0 equals False, a text equals neither.
EqTrue(x) == x = Bool(TRUE) \/ x = Num(1)
EqFalse(x) == x = Bool(FALSE) \/ x = Num(0)

\* Line 121: the rows with a price_per_sqm and a has_terrace.
tp_clean(df) ==
    SelectSeq(df.rows, LAMBDA r : NotNaN(r["price_per_sqm"]) /\ NotNaN(r["has_terrace"]))

\* More than MinTerraceRows rows are needed.
tp_too_few_strict(d) == Len(d) <= MinTerraceRows

\* Line 122.
tp_too_few(d) == Len(d) < MinTerraceRows

\* Lines 124-125: the median price of the rows of d that sel keeps.
tp_median(d, sel(_)) ==
    Median([i \in 1..Len(SelectSeq(d, LAMBDA r : sel(r["has_terrace"]))) |->
              SelectSeq(d, LAMBDA r : sel(r["has_terrace"]))[i]["price_per_sqm"]])

tp_null == [ok |-> TRUE, premium_abs |-> NaN, premium_pct |-> NaN]

\* Lines 126-128 for the two medians.
tp_premium(a, b) ==
    IF ~IsNum(a) \/ ~IsNum(b) \/ b = Num(0) THEN tp_null
    ELSE [ok |-> TRUE, premium_abs |-> Sub(a, b), premium_pct |-> Div(Sub(a, b), b)]

\* terrace_premium(df); dropna raises for a subset column the table lacks.
terrace_premium(df) ==
    IF ~HasCol(df, "has_terrace") THEN tp_null
    ELSE IF ~HasCol(df, "price_per_sqm") THEN Raised("KeyError", 121)
    ELSE IF tp_too_few(tp_clean(df)) THEN tp_null
    ELSE tp_premium(tp_median(tp_clean(df), EqTrue), tp_median(tp_clean(df), EqFalse))

\* The table after a call if the month column were assigned on it.
df_after_scoring_month(df) == [cols |-> df.cols \cup {"month"}, rows |-> df.rows]

\* scoring_pdf_only.py lines 51-53, 61-64, 119-121, 129-132: the month
\* column is assigned on d and dd, copies of the rows kept by dropna; no
\* scoring function assigns to df_all or df_view, so a table after a call
\* is the table before it.
df_after_scoring(df) == df

(***************************************************************************)
(* The tables drawn for the scoring functions.  A table is a run of        *)
(* district blocks; the rows of a block follow a pattern fixed by a few    *)
(* knobs, so that the sample-size thresholds of the code (10 reference     *)
(* values, 10 rows per district, 30 rows and 6 months for a momentum) are  *)
(* met, just met, and just missed.                                         *)
(***************************************************************************)
AllCols == {"district", "price_per_sqm", "days_on_market", "net_yield",
            "vacancy_days", "first_seen"}

\* Row j of the block of district number dk (0: the null district).
\*   nm   the number of months the rows cycle through
\*   pm   prices: "rise" by month, "zero"/"neg" with a first month at 0 / -3,
\*        "null" without any price
\*   km   KPIs present: "both" (days on market and vacancy), "dom", "none"
GenRow(dk, j, nm, pm, km) ==
    LET mi == (j - 1) % nm
        day == MonthStart[(mi % 12) + 1] + 365 * (mi \div 12) + (((j - 1) \div nm) % 28)
    IN  [district |-> IF dk = 0 THEN NaN ELSE Str(DistrictNames[dk]),
         first_seen |-> IF j % 7 = 0 THEN NaN ELSE Ts(2 * day + (j % 2)),
         price_per_sqm |->
            CASE pm = "rise" -> Num(10 + mi + dk * (j % 2))
              [] pm = "zero" -> IF mi = 0 THEN Num(0) ELSE Num(10 + mi)
              [] pm = "neg"  -> IF mi = 0 THEN Num(-3) ELSE Num(10 + mi)
              [] OTHER       -> NaN,
         days_on_market |->
            IF km \in {"both", "dom"} /\ j % 4 # 0 THEN Num((j * (dk + 1)) % 7) ELSE NaN,
         net_yield |->
            IF km # "none" THEN Num((j + dk) % 5) ELSE NaN,
         vacancy_days |->
            IF km = "both" THEN Num((j + 2 * dk) % 4) ELSE NaN]

GenBlock(dk, n, nm, pm, km) == [j \in 1..n |-> GenRow(dk, j, nm, pm, km)]

RECURSIVE GenBlocks(_, _, _, _, _, _)
\* The blocks of districts lo..hi, n rows each.
GenBlocks(lo, hi, n, nm, pm, km) ==
    IF lo > hi THEN <<>>
    ELSE GenBlock(lo, n, nm, pm, km) \o GenBlocks(lo + 1, hi, n, nm, pm, km)

\* A table with the given columns: the cells of the other columns are
\* blanked, they are never read.
MkTable(cols, rows) ==
    [cols |-> cols,
     rows |-> [i \in 1..Len(rows) |->
                 [c \in AllCols |-> IF c \in cols THEN rows[i][c] ELSE NaN]]]

MaxDistricts == 10      \* the markets drawn have up to this many districts

\* Rows of a block so that exactly MinTrendRows of them have a first_seen
\* (every seventh row has none).
TrendRows == MinTrendRows + 4

\* The market: districts 1..nD with bg rows each, prices rising by month.
Market(nD, bg, km, cols) == MkTable(cols, GenBlocks(1, nD, bg, MinTrendMonths, "rise", km))

\* The view: n1 rows of district 1, n2 rows of district 2, nz rows without
\* a district.
View(n1, n2, nz, nm, pm, km, cols) ==
    MkTable(cols, GenBlock(1, n1, nm, pm, km) \o GenBlock(2, n2, nm, pm, km)
                  \o GenBlock(0, nz, nm, pm, km))

\* The districts argument: None, [], or a list of names.
DistrictsArg(a) ==
    CASE a = "none"   -> [given |-> FALSE, list |-> <<>>]
      [] a = "empty"  -> [given |-> TRUE, list |-> <<>>]
      [] a = "one"    -> [given |-> TRUE, list |-> <<Str(DistrictNames[1])>>]
      [] a = "two"    -> [given |-> TRUE,
                          list |-> <<Str(DistrictNames[2]), Str(DistrictNames[1])>>]
      [] OTHER        -> [given |-> TRUE, list |-> <<Str(DistrictNames[3])>>]

KpiModes == {"both", "dom", "none"}
PriceModes == {"rise", "zero", "neg", "null"}
MarketCols == {AllCols, AllCols \ {"first_seen"}, AllCols \ {"vacancy_days"},
               AllCols \ {"district"}}
ViewCols == {AllCols, AllCols \ {"first_seen"}, AllCols \ {"net_yield"}}

\* The inputs drawn, as knobs of Market, View and DistrictsArg, in four
\* families: a small market varied against a few views, the view varied
\* against one small market, a market large enough for a trend reference
\* against views around the trend thresholds, and the districts argument
\* varied.
MarketCases ==
    [nD : (MinRef - 1)..MaxDistricts, bg : {1, 2}, kmA : KpiModes, colsA : MarketCols,
     n1 : {MinDistrictRows, TrendRows}, n2 : {MinDistrictRows}, nz : {0},
     nm : {MinTrendMonths}, pm : {"rise", "zero"}, km : {"both"},
     colsV : {AllCols}, a : {"none"}]

ViewCases ==
    [nD : {MaxDistricts}, bg : {2}, kmA : {"both"}, colsA : {AllCols},
     n1 : {1, MinDistrictRows - 1, MinDistrictRows, TrendRows - 1, TrendRows},
     n2 : {0, MinDistrictRows}, nz : {0},
     nm : {MinTrendMonths - 1, MinTrendMonths}, pm : PriceModes, km : KpiModes,
     colsV : ViewCols, a : {"none"}]

TrendCases ==
    [nD : (MinRef - 1)..MaxDistricts, bg : {TrendRows}, kmA : {"both"},
     colsA : {AllCols, AllCols \ {"first_seen"}, AllCols \ {"vacancy_days"}},
     n1 : {TrendRows - 1, TrendRows}, n2 : {0}, nz : {0},
     nm : {MinTrendMonths - 1, MinTrendMonths}, pm : PriceModes, km : {"both"},
     colsV : {AllCols}, a : {"none"}]

ArgCases ==
    [nD : {MaxDistricts}, bg : {2}, kmA : {"both"}, colsA : {AllCols},
     n1 : {MinDistrictRows - 1, MinDistrictRows},
     n2 : {0, MinDistrictRows - 1, MinDistrictRows + 1},
     nz : {0, MinDistrictRows},
     nm : {MinTrendMonths}, pm : {"rise"}, km : {"both"},
     colsV : {AllCols, AllCols \ {"district"}},
     a : {"none", "empty", "one", "two", "other"}]

NotRun == [ok |-> FALSE, error |-> "not run", line |-> 0]
NoTable == [cols |-> {}, rows |-> <<>>]
NoArg == [given |-> FALSE, list |-> <<>>]

PctUnused ==
    /\ series = <<>>
    /\ value = NaN
    /\ higher_is_better = TRUE
    /\ result = NaN
    /\ last = [value |-> NaN, higher_is_better |-> TRUE, result |-> NaN, made |-> FALSE]

ScoreUnused ==
    /\ df_all = NoTable
    /\ df_view = NoTable
    /\ districts = NoArg
    /\ score = NotRun
    /\ details = NotRun
    /\ by_district = NotRun

FactsUnused ==
    /\ raw = NoTable
    /\ now = NaN
    /\ facts = NotRun

WmUnused ==
    /\ wm_rows = <<>>
    /\ wm_result = NaN
    /\ wm_prev = [made |-> FALSE, result |-> NaN]

GsUnused ==
    /\ gs_df = NoTable
    /\ gs_args = [group_cols |-> [str |-> FALSE, name |-> "", list |-> <<>>],
                  value_col |-> "", weight_col |-> "", min_n |-> 0]
    /\ gs_result = NotRun

SnapUnused ==
    /\ sn_view = NoTable
    /\ sn_group_col = ""
    /\ snap = NotRun
    /\ snaps = NotRun

TpUnused ==
    /\ tp_view = NoTable
    /\ tp_result = NotRun

KpiUnused == WmUnused /\ GsUnused /\ SnapUnused /\ TpUnused

InitScore ==
    /\ pc = "score"
    /\ PctUnused
    /\ FactsUnused
    /\ KpiUnused
    /\ \E c \in MarketCases \cup ViewCases \cup TrendCases \cup ArgCases :
        /\ df_all = Market(c.nD, c.bg, c.kmA, c.colsA)
        /\ df_view = View(c.n1, c.n2, c.nz, c.nm, c.pm, c.km, c.colsV)
        /\ districts = DistrictsArg(c.a)
    /\ score = NotRun
    /\ details = NotRun
    /\ by_district = NotRun

Score ==
    /\ pc = "score"
    /\ score = NotRun
    /\ score' = barzel_score_pdf_only(df_all, df_view)
    /\ df_all' = df_after_scoring(df_all)
    /\ df_view' = df_after_scoring(df_view)
    /\ UNCHANGED <<pc, pctVars, factsVars, kpiVars, districts, details, by_district>>

ScoreDetails ==
    /\ pc = "score"
    /\ details = NotRun
    /\ details' = barzel_score_details(df_all, df_view)
    /\ df_all' = df_after_scoring(df_all)
    /\ df_view' = df_after_scoring(df_view)
    /\ UNCHANGED <<pc, pctVars, factsVars, kpiVars, districts, score, by_district>>

ScoresByDistrict ==
    /\ pc = "score"
    /\ by_district = NotRun
    /\ by_district' = barzel_scores_by_district(df_all, df_view, districts)
    /\ df_all' = df_after_scoring(df_all)
    /\ df_view' = df_after_scoring(df_view)
    /\ UNCHANGED <<pc, pctVars, factsVars, kpiVars, districts, score, details>>

NextScore == Score \/ ScoreDetails \/ ScoresByDistrict

SpecScore == InitScore /\ [][NextScore]_vars

(***************************************************************************)
(* SpecLiq: barzel_scores_by_district on a market of two districts whose   *)
(* days on market lie in two ranges, the view being the whole market.      *)
(***************************************************************************)
LiqRowsA == 60      \* rows of district D01 in the larger market
LiqRowsB == 40      \* rows of district D02 in the larger market

\* Row j of district number dk: days_on_market runs over lo..hi; vacancy
\* is "null", "flat" (the same everywhere) or "apart" (by district).
LiqRow(dk, j, lo, hi, vm) ==
    [district |-> Str(DistrictNames[dk]),
     first_seen |-> NaN,
     price_per_sqm |-> Num(10 + (j % 3)),
     days_on_market |-> Num(lo + (j % (hi - lo + 1))),
     net_yield |-> Num(j % 5),
     vacancy_days |-> CASE vm = "null" -> NaN
                        [] vm = "flat" -> Num(5)
                        [] OTHER       -> Num(5 * dk)]

LiqBlock(dk, n, rng, vm) == [j \in 1..n |-> LiqRow(dk, j, rng[1], rng[2], vm)]

LiqRanges == {<<10, 20>>, <<40, 60>>, <<15, 45>>, <<15, 15>>}

LiqMarkets ==
    {MkTable(AllCols, LiqBlock(1, na, ra, vm) \o LiqBlock(2, nb, rb, vm)) :
        na \in {MinDistrictRows, LiqRowsA}, nb \in {MinDistrictRows, LiqRowsB},
        ra \in LiqRanges, rb \in LiqRanges, vm \in {"null", "flat", "apart"}}

InitLiq ==
    /\ pc = "score"
    /\ PctUnused
    /\ FactsUnused
    /\ KpiUnused
    /\ df_all \in LiqMarkets
    /\ df_view = df_all
    /\ districts = NoArg
    /\ score = NotRun
    /\ details = NotRun
    /\ by_district = NotRun

NextLiq == ScoresByDistrict

SpecLiq == InitLiq /\ [][NextLiq]_vars

(***************************************************************************)
(* SpecPct: percentile_score applied to one reference series.              *)
(***************************************************************************)
MaxLen == 11        \* longest reference series drawn
MaxVal == 1         \* reference values are 0..MaxVal

Rep(c, n) == [i \in 1..n |-> c]

RECURSIVE NumRuns(_, _)
\* cnt[v] copies of each value v of 0..hi, highest first.
NumRuns(cnt, hi) ==
    IF hi < 0 THEN <<>> ELSE Rep(Num(hi), cnt[hi]) \o NumRuns(cnt, hi - 1)

RECURSIVE SumTo(_, _)
SumTo(cnt, hi) == IF hi < 0 THEN 0 ELSE cnt[hi] + SumTo(cnt, hi - 1)

\* The reference series drawn: some text, some nulls, then numbers.
SeriesSet ==
    { Rep(Str("n/a"), t) \o Rep(NaN, z) \o NumRuns(cnt, MaxVal) :
        <<t, z, cnt>> \in
          { q \in (0..1) \X (0..MaxLen) \X [0..MaxVal -> 0..MaxLen] :
                q[1] + q[2] + SumTo(q[3], MaxVal) <= MaxLen } }

ValueSet == {NaN, PosInf} \cup {Num(i) : i \in -1..(MaxVal + 1)}

NoCall == [value |-> NaN, higher_is_better |-> TRUE, result |-> NaN, made |-> FALSE]

InitPct ==
    /\ pc = "pct"
    /\ series \in SeriesSet
    /\ value = NaN
    /\ higher_is_better = TRUE
    /\ result = NaN
    /\ last = NoCall
    /\ ScoreUnused
    /\ FactsUnused
    /\ KpiUnused

PercentileScore ==
    /\ pc \in {"pct", "pct_called"}
    /\ \E v \in ValueSet, hib \in BOOLEAN :
        /\ value' = v
        /\ higher_is_better' = hib
        /\ result' = percentile_score(series, v, hib)
    /\ last' = [value |-> value, higher_is_better |-> higher_is_better,
                result |-> result, made |-> pc = "pct_called"]
    /\ pc' = "pct_called"
    /\ UNCHANGED <<series, scoreVars, factsVars, kpiVars>>

NextPct == PercentileScore

SpecPct == InitPct /\ [][NextPct]_vars

(***************************************************************************)
(* SpecFacts: add_facts applied to one raw table.  A raw table is drawn    *)
(* as a choice, per column, of the column being absent or holding a        *)
(* pattern of cells; each family varies the sources of some canonical      *)
(* fields around their sanity bounds and leaves the other columns out.     *)
(***************************************************************************)
NRows == 2          \* rows of a raw table

Absent == <<>>
Nulls == <<NaN, NaN>>

\* The table of a choice f (a record, one field per column): a column
\* repeats its pattern down the rows; listing_id, which add_facts does not
\* read, numbers the rows.
MkRaw(f) ==
    LET cols == {c \in DOMAIN f : f[c] # Absent}
    IN  [cols |-> cols \cup {"listing_id"},
         rows |-> [i \in 1..NRows |->
                     [c \in cols \cup {"listing_id"} |->
                        IF c = "listing_id" THEN Num(i)
                        ELSE f[c][((i - 1) % Len(f[c])) + 1]]]]

\* Patterns around the bounds lo and hi.
Around(lo, hi) ==
    {<<v, w>> : v \in {Num(lo - 1), Num(lo), Num(hi), Num(hi + 1),
                       Frac(2 * lo - 1, 2), Frac(2 * hi + 1, 2),
                       PosInf, NegInf, NaN, Str("n/a")},
                w \in {NaN, Num(hi)}}

PriceCases ==
    [weighted_price_per_sqm_aed : {Absent, Nulls} \cup Around(PriceMin, PriceMax),
     price_per_sqm_aed : {Absent, <<Num(PriceMin), Num(PriceMax + 1)>>},
     sale_price_aed : {Absent, <<Num(2 * PriceMin - 1), Num(2 * PriceMax)>>,
                       <<NaN, Num(2 * PriceMin)>>,
                       <<Num(2 * PriceMin), Num(-2 * PriceMin)>>},
     price : {Absent, <<Num(2 * PriceMin), PosInf>>},
     size_sqm : {Absent, <<Num(2), Num(2)>>, <<Num(0), Num(-2)>>, <<NaN, Num(1)>>},
     price_per_sqm : {Absent, <<Num(1), Num(PriceMax + 1)>>}]

DaysCases ==
    [days_on_market : {Absent, Nulls} \cup Around(DomMin, DomMax),
     first_seen : {Absent, Nulls, <<Ts(0), NaN>>, <<Ts(2 * DomMax + 1), Ts(3)>>,
                   <<Str("n/a"), Ts(0)>>},
     last_seen : {Absent, Nulls, <<NaN, Ts(2 * DomMax + 3)>>,
                  <<Ts(2 * DomMax), Ts(2)>>},
     scraped_at : {Absent, <<Ts(0), Str("n/a")>>}]

YieldCases ==
    [net_yield_adj_vacancy_pct : {Absent, Nulls} \cup Around(YieldMin, YieldMax),
     net_yield_est_pct : {Absent, Nulls, <<Num(YieldMin), Num(YieldMax + 1)>>},
     gross_yield_pct : {Absent, Nulls, <<Num(YieldMin - 1), Num(YieldMax)>>,
                        <<Num(7), NaN>>},
     net_yield : {Absent, <<Num(YieldMax + 1), Num(YieldMax + 1)>>},
     gross_yield : {Absent, <<Num(YieldMin - 1), Num(1)>>}]

ChargeCases ==
    [service_charge_aed_per_sqm_year : {Absent, Nulls} \cup Around(ChargeMin, ChargeMax),
     vacancy_days_est : {Absent, Nulls, <<Num(VacancyMin), Num(VacancyMax)>>,
                         <<Num(VacancyMin - 1), Num(VacancyMax + 1)>>,
                         <<Str("n/a"), Frac(1, 2)>>},
     service_charge_psm_year : {Absent, <<Num(ChargeMax + 1), Num(-1)>>},
     vacancy_days : {Absent, <<Num(VacancyMax + 1), Num(-1)>>}]

TerraceCases ==
    [has_terrace : {Absent, Nulls} \cup
                   {<<v, w>> : v \in {Str("Yes"), Str("TRUE"), Str("YES "), Str("no"),
                                      Str("1"), Bool(TRUE), Bool(FALSE), Num(1), Num(0)},
                               w \in {NaN, Str("yes"), Num(1)}},
     terrace_size_sqm : {Absent, <<Num(12), Str("n/a")>>},
     bedrooms : {Absent, <<Str("studio"), Num(2)>>},
     days_on_market : {Absent, <<Num(DomMax), Num(DomMax + 1)>>}]

\* The clock reads around DomMax days after the earliest first_seen.
NowSet == {Ts(2 * DomMax), Ts(2 * DomMax + 1), Ts(2 * DomMax + 2)}

InitFacts ==
    /\ pc = "facts"
    /\ PctUnused
    /\ ScoreUnused
    /\ KpiUnused
    /\ \E f \in PriceCases \cup DaysCases \cup YieldCases \cup ChargeCases
                \cup TerraceCases : raw = MkRaw(f)
    /\ now = NaN
    /\ facts = NotRun

AddFacts ==
    /\ pc = "facts"
    /\ facts = NotRun
    /\ \E utcnow \in NowSet :
        /\ now' = utcnow
        /\ facts' = add_facts(raw, utcnow)
        /\ raw' = caller_df(raw, add_facts(raw, utcnow))
    /\ UNCHANGED <<pc, pctVars, scoreVars, kpiVars>>

NextFacts == AddFacts

SpecFacts == InitFacts /\ [][NextFacts]_vars

(***************************************************************************)
(* SpecGs: group_stats on a listings table with two districts, a second    *)
(* group column, rows without a key and rows without a value.              *)
(***************************************************************************)
GsExtra == 1        \* district B has up to MinN + GsExtra rows

\* The row i of a district: the values cycle over 1..4, the bedrooms over
\* 0..1 and the sizes over sizes.
GsListing(name, i, sizes) ==
    [district |-> Str(name), bedrooms |-> Num(i % 2),
     price_per_sqm |-> Num((i % 4) + 1),
     size_sqm |-> sizes[(i % Len(sizes)) + 1]]

GsBlock(name, n, sizes) == [i \in 1..n |-> GsListing(name, i, sizes)]

GsSizes == {<<Num(1), Num(2), Num(3)>>, <<Num(1), NaN, Num(0)>>, <<NaN>>}

GsNoKey == {<<>>, <<[district |-> NaN, bedrooms |-> Num(1),
                     price_per_sqm |-> Num(5), size_sqm |-> Num(1)]>>}

GsNoValue == {<<>>} \cup
             {<<[district |-> Str("A"), bedrooms |-> Num(1),
                 price_per_sqm |-> v, size_sqm |-> Num(1)]>> : v \in {NaN, Str("n/a")}}

GsTables ==
    {[cols |-> {"district", "bedrooms", "price_per_sqm", "size_sqm"},
      rows |-> GsBlock("A", a, sizes) \o nv \o GsBlock("B", b, sizes) \o nk] :
        a \in {MinN - 1, MinN},
        b \in {0} \cup ((MinN - 1)..(MinN + GsExtra)),
        sizes \in GsSizes, nv \in GsNoValue, nk \in GsNoKey}

GsGroupCols ==
    {[str |-> TRUE, name |-> "district", list |-> <<>>],
     [str |-> TRUE, name |-> "floor", list |-> <<>>],
     [str |-> FALSE, name |-> "", list |-> <<"district">>],
     [str |-> FALSE, name |-> "", list |-> <<"district", "bedrooms">>]}

GsArgs ==
    [group_cols : GsGroupCols, value_col : {"price_per_sqm", "rent"},
     weight_col : {"", "size_sqm", "floor"}, min_n : {1, MinN}]

InitGs ==
    /\ pc = "gs"
    /\ PctUnused /\ ScoreUnused /\ FactsUnused /\ WmUnused /\ SnapUnused /\ TpUnused
    /\ gs_df \in GsTables
    /\ gs_args \in GsArgs
    /\ gs_result = NotRun

GroupStats ==
    /\ pc = "gs"
    /\ \E pick \in sort_values_n(gs_rows(gs_df, gs_args)) :
          gs_result' = group_stats(gs_df, gs_args, pick)
    /\ pc' = "gs_called"
    /\ UNCHANGED <<pctVars, scoreVars, factsVars, wmVars, snapVars, tpVars, gs_df, gs_args>>

NextGs == GroupStats

SpecGs == InitGs /\ [][NextGs]_vars

(***************************************************************************)
(* SpecSnap: snapshot and snapshots_by on a view whose columns are each    *)
(* absent, all null, partly null or filled.                                *)
(***************************************************************************)
MaxSnapRows == 12   \* rows of the largest view

SnModes == {"absent", "null", "some", "all"}

\* The districts down the rows: D02 has one row, D01 and D03 alternate.
SnDistrict(i) ==
    IF i = 1 THEN Str("D02") ELSE IF i % 2 = 0 THEN Str("D01") ELSE Str("D03")

\* The filled cell of column c in row i.
SnValue(c, i) ==
    CASE c = "price_per_sqm"  -> Num(((2 * i) % 5) + 1)
      [] c = "days_on_market" ->
            Num(<<FastDays30, FastDays60 + 1, FastDays30 - 1,
                  FastDays30 + 1, FastDays60>>[(i % 5) + 1])
      [] c = "gross_yield"    -> Num(6 + (i % 3))
      [] c = "net_yield"      -> Num(4 + (i % 2))
      [] c = "vacancy_days"   -> Num(10 * (i % 4))
      [] c = "service_charge_psm_year" -> Num(10 + (i % 3))
      [] c = "terrace_size_sqm" -> Num(5 + (i % 2))
      [] c = "has_terrace"    -> <<Bool(TRUE), Bool(FALSE), Str("no"), Num(0)>>[(i % 4) + 1]
      [] c = "district"       -> SnDistrict(i)

\* The rows in which a partly null column c is null: gross_yield and
\* net_yield are null in alternate rows, the others in a row out of three
\* or four.
SnNullAt(c, i) ==
    CASE c = "gross_yield" -> i % 2 = 1
      [] c = "net_yield"   -> i % 2 = 0
      [] c = "district"    -> i % 4 = 0
      [] OTHER             -> i % 3 = 0

SnCell(c, i, mode) ==
    IF mode = "null" \/ (mode = "some" /\ SnNullAt(c, i)) THEN NaN ELSE SnValue(c, i)

\* The view of n rows with the columns in the modes given.
MkView(n, modes) ==
    [cols |-> {c \in DOMAIN modes : modes[c] # "absent"},
     rows |-> [i \in 1..n |->
                 [c \in {x \in DOMAIN modes : modes[x] # "absent"} |->
                    SnCell(c, i, modes[c])]]]

\* Three rows, each KPI column absent, all null or filled.
SnPresenceCases ==
    {MkView(3, m) :
        m \in [price_per_sqm : {"absent", "null", "all"},
               days_on_market : {"absent", "null", "all"},
               gross_yield : {"absent", "null", "all"},
               net_yield : {"absent", "null", "all"},
               vacancy_days : {"absent", "all"},
               service_charge_psm_year : {"absent", "all"},
               terrace_size_sqm : {"absent", "all"},
               has_terrace : {"absent", "some"},
               district : {"all"}]}

\* Every KPI column present, in views of 0 to MaxSnapRows rows.
SnSizeCases ==
    {MkView(n, [price_per_sqm |-> m, days_on_market |-> dom, gross_yield |-> g,
                net_yield |-> y, vacancy_days |-> m,
                service_charge_psm_year |-> "all", terrace_size_sqm |-> m,
                has_terrace |-> ht, district |-> d]) :
        n \in {0, 1, 2, MinKpiRows, MaxSnapRows},
        m \in {"some", "all"}, dom \in {"null", "some", "all"},
        g \in {"some", "all"}, y \in {"some", "all"},
        ht \in {"absent", "null", "some"},
        d \in SnModes}

InitSnap ==
    /\ pc = "snap"
    /\ PctUnused /\ ScoreUnused /\ FactsUnused /\ WmUnused /\ GsUnused /\ TpUnused
    /\ sn_view \in SnPresenceCases \cup SnSizeCases
    /\ sn_group_col \in {"district", "building_name"}
    /\ snap = NotRun
    /\ snaps = NotRun

Snapshot ==
    /\ pc = "snap"
    /\ snap = NotRun
    /\ snap' = snapshot(sn_view)
    /\ UNCHANGED <<pc, pctVars, scoreVars, factsVars, wmVars, gsVars, tpVars,
                   sn_view, sn_group_col, snaps>>

SnapshotsBy ==
    /\ pc = "snap"
    /\ snaps = NotRun
    /\ snaps' = snapshots_by(sn_view, sn_group_col)
    /\ UNCHANGED <<pc, pctVars, scoreVars, factsVars, wmVars, gsVars, tpVars,
                   sn_view, sn_group_col, snap>>

NextSnap == Snapshot \/ SnapshotsBy

SpecSnap == InitSnap /\ [][NextSnap]_vars

(***************************************************************************)
(* SpecTp: terrace_premium on a view of terraced and plain listings.       *)
(***************************************************************************)
TpGroup == 25       \* rows of the larger group of a view

\* The has_terrace cell of a terraced (yes) or plain listing, written as
\* a boolean, a number or a text.
TpFlag(yes, as) ==
    CASE as = "bool" -> Bool(yes)
      [] as = "num"  -> IF yes THEN Num(1) ELSE Num(0)
      [] as = "str"  -> IF yes THEN Str("yes") ELSE Str("no")

\* n listings whose prices are 100 apart around base.
TpBlock(n, base, yes, as) ==
    [i \in 1..n |-> [price_per_sqm |-> Num(base + 100 * (i - ((n + 1) \div 2))),
                     has_terrace |-> TpFlag(yes, as)]]

\* A terraced listing without a price and a listing with a price and no
\* has_terrace.
TpHalfKnown ==
    <<[price_per_sqm |-> NaN, has_terrace |-> Bool(TRUE)],
      [price_per_sqm |-> Num(13000), has_terrace |-> NaN]>>

\* The table with the columns of cols only.
Project(rows, cols) ==
    [cols |-> cols, rows |-> [i \in 1..Len(rows) |-> [c \in cols |-> rows[i][c]]]]

TpViews ==
    {Project(TpBlock(nt, 15000, TRUE, as) \o x \o TpBlock(nf, base, FALSE, as), cols) :
        nt \in {0, MinTerraceRows \div 2, TpGroup},
        nf \in {0, MinTerraceRows \div 2 - 1, MinTerraceRows \div 2, TpGroup},
        base \in {12000, 0}, as \in {"bool", "num", "str"},
        x \in {<<>>, TpHalfKnown},
        cols \in {{"price_per_sqm", "has_terrace"}, {"price_per_sqm"}, {"has_terrace"}}}

InitTp ==
    /\ pc = "tp"
    /\ PctUnused /\ ScoreUnused /\ FactsUnused /\ WmUnused /\ GsUnused /\ SnapUnused
    /\ tp_view \in TpViews
    /\ tp_result = NotRun

TerracePremium ==
    /\ pc = "tp"
    /\ tp_result = NotRun
    /\ tp_result' = terrace_premium(tp_view)
    /\ UNCHANGED <<pc, pctVars, scoreVars, factsVars, wmVars, gsVars, snapVars, tp_view>>

NextTp == TerracePremium

SpecTp == InitTp /\ [][NextTp]_vars

(***************************************************************************)
(* SpecWm: weighted_median called on a few rows, then on the same rows in  *)
(* another order.                                                          *)
(***************************************************************************)
MaxWmRows == 3      \* rows of the weighted_median input

WmValues == {Num(1), Num(2), Num(3), NaN, Str("n/a")}
WmWeights == {Num(1), Num(2), Num(0), Num(-1), NaN}

RECURSIVE SeqsUpTo(_, _)
\* The sequences over S of length at most n.
SeqsUpTo(S, n) ==
    IF n = 0 THEN {<<>>}
    ELSE LET shorter == SeqsUpTo(S, n - 1)
         IN  shorter \cup {Append(s, x) : s \in {q \in shorter : Len(q) = n - 1}, x \in S}

InitWm ==
    /\ pc = "wm"
    /\ PctUnused /\ ScoreUnused /\ FactsUnused /\ GsUnused /\ SnapUnused /\ TpUnused
    /\ wm_rows \in SeqsUpTo([v : WmValues, w : WmWeights], MaxWmRows)
    /\ wm_result = NaN
    /\ wm_prev = [made |-> FALSE, result |-> NaN]

WeightedMedian ==
    /\ pc \in {"wm", "wm_reordered"}
    /\ LET e == wm_eligible([i \in 1..Len(wm_rows) |-> wm_rows[i].v],
                            [i \in 1..Len(wm_rows) |-> wm_rows[i].w])
       IN  \E o \in argsort(e) : wm_result' = weighted_median(e, o)
    /\ wm_prev' = [made |-> pc = "wm_reordered", result |-> wm_result]
    /\ pc' = "wm_called"
    /\ UNCHANGED <<wm_rows, pctVars, scoreVars, factsVars, gsVars, snapVars, tpVars>>

\* The caller passes the same rows in another order.
Reorder ==
    /\ pc = "wm_called"
    /\ \E o \in Perms(Len(wm_rows)) :
        /\ \E i \in 1..Len(wm_rows) : o[i] # i
        /\ wm_rows' = [i \in 1..Len(wm_rows) |-> wm_rows[o[i]]]
    /\ pc' = "wm_reordered"
    /\ UNCHANGED <<wm_result, wm_prev, pctVars, scoreVars, factsVars, gsVars, snapVars, tpVars>>

NextWm == WeightedMedian \/ Reorder

SpecWm == InitWm /\ [][NextWm]_vars

(***************************************************************************)
(* Claims about percentile_score (checked under SpecPct).                  *)
(***************************************************************************)
\* The reference values that count: numeric and not null.
RefIdx == {i \in 1..Len(series) : series[i].k \in {"num", "inf"}}
RefLeIdx == {i \in RefIdx : Le(series[i], value)}
Called == pc = "pct_called"

\* C4: percentile scoring is monotonic.  With the reference fixed (at least
\* MinRef non-null values) and two non-null subset values v1 <= v2 scored in
\* the same direction, higher-is-better gives pct(v1) <= pct(v2) and
\* lower-is-better gives pct(v1) >= pct(v2).
C4_Monotonic ==
    (/\ Called /\ last.made
     /\ Cardinality(RefIdx) >= MinRef
     /\ last.higher_is_better = higher_is_better
     /\ Le(last.value, value))
    => IF higher_is_better THEN Le(last.result, result)
                           ELSE Le(result, last.result)

C4_Witness ==
    /\ Called /\ last.made
    /\ Cardinality(RefIdx) >= MinRef
    /\ ~higher_is_better /\ ~last.higher_is_better
    /\ Lt(last.value, value)
    /\ Lt(result, last.result)

\* C5: percentile_score returns null when the reference has fewer than
\* MinRef non-null values or the subset value is null; otherwise it returns
\* the fraction of non-null reference values <= the value (inclusive) for
\* higher-is-better and 1 minus that fraction for lower-is-better.  Exactly
\* MinRef non-null reference values yield a number.
C5_PercentileDefinition ==
    Called =>
      LET n == Cardinality(RefIdx)
          c == Cardinality(RefLeIdx)
      IN  IF n < MinRef \/ value = NaN
          THEN result = NaN
          ELSE /\ IsNum(result)
               /\ result.n * n = (IF higher_is_better THEN c ELSE n - c) * result.d

C5_Witness ==
    /\ Called
    /\ Cardinality(RefIdx) = MinRef
    /\ Len(series) > MinRef
    /\ \E i \in RefIdx : series[i] = value
    /\ IsNum(result) /\ Lt(Num(0), result) /\ Lt(result, Num(1))

\* C3: a non-null percentile lies in [0, 1] and its points in [0, 25], in
\* both directions and for subset values at, below and above the reference
\* extremes; so a non-null pillar (the points of one percentile, or 25 times
\* the mean of two percentiles for Liquidity) lies in [0, 25].
InUnit(x, hi) == Le(Num(0), x) /\ Le(x, Num(hi))

C3_Bounded ==
    Called =>
      /\ NotNaN(result) => InUnit(result, 1) /\ InUnit(Points(result), PillarMax)
      /\ NotNaN(Points(nanmean(last.result, result)))
            => InUnit(Points(nanmean(last.result, result)), PillarMax)

C3_Witness ==
    /\ Called /\ last.made
    /\ Cardinality(RefIdx) >= MinRef
    /\ ~higher_is_better /\ \A i \in RefIdx : Lt(value, series[i])
    /\ result = Num(1) /\ Points(result) = Num(PillarMax)
    /\ last.higher_is_better /\ last.result = Num(1)
    /\ \E i \in RefIdx : series[i] = last.value

(***************************************************************************)
(* Claims about the scoring functions (checked under SpecScore).           *)
(***************************************************************************)
ScoreOk == score.ok
DetailsOk == details.ok
ByDistrictOk == by_district.ok

\* The mean of the non-null ones of two point values, null if both are.
MeanOfNonNull(a, b) ==
    IF NotNaN(a) /\ NotNaN(b) THEN Div(Add(a, b), Num(2))
    ELSE IF NotNaN(a) THEN a
    ELSE b

\* C2: on the same (df_all, df_view), score and score_details agree: both
\* return, the pillars and the total of score equal the totals of
\* score_details, and the five percentiles behind them are the same; this
\* includes a view whose first-month median price is zero or negative and
\* tables that lack a scored column.
C2_ScoreAgreesWithDetails ==
    (score # NotRun /\ details # NotRun) =>
      /\ ScoreOk = DetailsOk
      /\ ScoreOk =>
           /\ score.Liquidity = details.totals.Liquidity
           /\ score.Yield = details.totals.Yield
           /\ score.Risk = details.totals.Risk
           /\ score.Trend = details.totals.Trend
           /\ score.Total = details.totals.Total
           /\ score.locals.s_dom = details.rows[1].pct
           /\ score.locals.s_vac = details.rows[2].pct
           /\ score.locals.s_yield = details.rows[3].pct
           /\ score.locals.s_risk = details.rows[4].pct
           /\ score.locals.s_trend = details.rows[5].pct

\* The two functions both return and disagree on the Trend pillar: the
\* view's first-month median is 0, score divides by it and scores the
\* infinite momentum, score_details leaves the momentum null.
C2_Witness ==
    /\ ScoreOk /\ DetailsOk
    /\ score.locals.trend = PosInf /\ IsNaN(details.inputs.trend)
    /\ score.Trend = Num(PillarMax) /\ IsNaN(details.totals.Trend)
    /\ score.Total # details.totals.Total

\* C6: each KPI's points are 25 times its percentile; Liquidity is the mean
\* of the non-null ones of the days-on-market and vacancy points (the single
\* one when the other is null, null when both are); Yield, Risk and Trend
\* are the points of their percentile, null exactly when it is null.
C6_PointsAndPillars ==
    /\ ScoreOk =>
         /\ score.Liquidity = MeanOfNonNull(Points(score.locals.s_dom),
                                            Points(score.locals.s_vac))
         /\ score.Yield = Points(score.locals.s_yield)
         /\ score.Risk = Points(score.locals.s_risk)
         /\ score.Trend = Points(score.locals.s_trend)
         /\ IsNaN(score.Yield) <=> IsNaN(score.locals.s_yield)
         /\ IsNaN(score.Risk) <=> IsNaN(score.locals.s_risk)
         /\ IsNaN(score.Trend) <=> IsNaN(score.locals.s_trend)
    /\ DetailsOk =>
         /\ \A i \in 1..5 : details.rows[i].points = Points(details.rows[i].pct)
         /\ details.totals.Liquidity = MeanOfNonNull(details.rows[1].points,
                                                     details.rows[2].points)
         /\ details.totals.Yield = details.rows[3].points
         /\ details.totals.Risk = details.rows[4].points
         /\ details.totals.Trend = details.rows[5].points
         /\ \A i \in 3..5 : IsNaN(details.rows[i].points) <=> IsNaN(details.rows[i].pct)

C6_Witness ==
    /\ ScoreOk /\ DetailsOk
    /\ NotNaN(score.locals.s_dom) /\ IsNaN(score.locals.s_vac)
    /\ score.Liquidity = Points(score.locals.s_dom)
    /\ Lt(Num(0), score.Liquidity)
    /\ NotNaN(details.rows[1].points) /\ IsNaN(details.rows[2].points)
    /\ details.totals.Liquidity = details.rows[1].points

\* C7: Total is the sum of the non-null pillars; it is never null, is 0
\* when the four pillars are null, and lies in [0, 100].
SumOfNonNull(S) ==
    LET z(x) == IF NotNaN(x) THEN x ELSE Num(0)
    IN  Add(Add(z(S.Liquidity), z(S.Yield)), Add(z(S.Risk), z(S.Trend)))

AllPillarsNull(S) ==
    IsNaN(S.Liquidity) /\ IsNaN(S.Yield) /\ IsNaN(S.Risk) /\ IsNaN(S.Trend)

TotalAsClaimed(S) ==
    /\ S.Total = SumOfNonNull(S)
    /\ NotNaN(S.Total)
    /\ AllPillarsNull(S) => S.Total = Num(0)
    /\ InUnit(S.Total, 4 * PillarMax)

C7_Total ==
    /\ ScoreOk => TotalAsClaimed(score)
    /\ DetailsOk => TotalAsClaimed(details.totals)

C7_Witness ==
    /\ ScoreOk /\ DetailsOk
    /\ IsNaN(score.Trend) /\ NotNaN(score.Liquidity)
    /\ NotNaN(score.Yield) /\ NotNaN(score.Risk)
    /\ Lt(Num(0), score.Total)
    /\ score.Total = Add(score.Liquidity, Add(score.Yield, score.Risk))
    /\ details.totals.Total = score.Total

\* C8: Risk is 25 x (1 - the fraction of the per-district standard
\* deviations of price over df_all that are <= the view's standard
\* deviation), one value per district; it is null when fewer than MinRef
\* districts have a defined deviation or the view's deviation is undefined.
DistrictStd(dv) == Std(ToNumericSeries(Col(InDistrict(df_all, dv), "price_per_sqm")))
DefinedStdDistricts == {dv \in DistrictsOf(df_all) : NotNaN(DistrictStd(dv))}
ViewStd == Std(ToNumericSeries(Col(df_view, "price_per_sqm")))

RiskAsClaimed ==
    IF Cardinality(DefinedStdDistricts) < MinRef \/ IsNaN(ViewStd) THEN NaN
    ELSE Points(Sub(Num(1),
                    Frac(Cardinality({dv \in DefinedStdDistricts :
                                        Le(DistrictStd(dv), ViewStd)}),
                         Cardinality(DefinedStdDistricts))))

C8_Risk ==
    /\ ScoreOk => score.Risk = RiskAsClaimed
    /\ DetailsOk => details.totals.Risk = RiskAsClaimed

C8_Witness ==
    /\ ScoreOk /\ DetailsOk
    /\ Cardinality(DefinedStdDistricts) = MinRef
    /\ Len(df_all.rows) > Cardinality(DefinedStdDistricts)
    /\ Lt(Num(0), score.Risk) /\ Lt(score.Risk, Num(PillarMax))
    /\ details.totals.Risk = score.Risk

\* C9: in score and in score_details the view's momentum uses only the rows
\* with a first_seen and a price; it is null below MinTrendRows such rows or
\* MinTrendMonths months, null when the earliest month's median is 0, and
\* otherwise (latest median - earliest median) / earliest median; a null
\* momentum gives a null Trend pillar.
MomentumAsClaimed ==
    LET d == DropnaTrend(df_view)
    IN  IF Len(d.rows) < MinTrendRows \/ Cardinality(MonthsOf(d)) < MinTrendMonths
        THEN NaN
        ELSE IF FirstMonthMedian(d) = Num(0) THEN NaN
        ELSE Momentum(d)

C9_TrendMomentum ==
    /\ ScoreOk => /\ score.locals.trend = MomentumAsClaimed
                  /\ IsNaN(score.locals.trend) => IsNaN(score.Trend)
    /\ DetailsOk => /\ details.inputs.trend = MomentumAsClaimed
                    /\ IsNaN(details.inputs.trend) => IsNaN(details.totals.Trend)

\* Enough rows and months, an earliest-month median of 0: score's momentum
\* is infinite.
C9_Witness ==
    /\ ScoreOk
    /\ Len(DropnaTrend(df_view).rows) >= MinTrendRows
    /\ Cardinality(MonthsOf(DropnaTrend(df_view))) >= MinTrendMonths
    /\ FirstMonthMedian(DropnaTrend(df_view)) = Num(0)
    /\ score.locals.trend = PosInf

\* C10: scores_by_district returns one row per requested district with at
\* least MinDistrictRows rows in df_view, in the order requested (exactly
\* MinDistrictRows rows are enough, fewer or none omit the district); each
\* row is score(df_all, the rows of that district); with no or an empty
\* districts argument the districts are the distinct non-null districts of
\* df_view.
Requested ==
    IF districts.given /\ districts.list # <<>> THEN districts.list
    ELSE SortedNames({df_view.rows[i]["district"] : i \in 1..Len(df_view.rows)} \ {NaN})

RowsIn(dv) == {i \in 1..Len(df_view.rows) : df_view.rows[i]["district"] = dv}

Reported == SelectSeq(Requested, LAMBDA dv : Cardinality(RowsIn(dv)) >= MinDistrictRows)

C10_ScoresByDistrict ==
    (ByDistrictOk /\ HasCol(df_view, "district")) =>
      /\ Len(by_district.rows) = Len(Reported)
      /\ \A i \in 1..Len(Reported) :
           LET r == by_district.rows[i]
               s == barzel_score_pdf_only(df_all, InDistrict(df_view, Reported[i]))
           IN  /\ r.district = Reported[i].s
               /\ s.ok
               /\ <<r.Liquidity, r.Yield, r.Risk, r.Trend, r.Total>>
                    = <<s.Liquidity, s.Yield, s.Risk, s.Trend, s.Total>>

C10_Witness ==
    /\ ByDistrictOk /\ HasCol(df_view, "district")
    /\ districts.given /\ Len(districts.list) = 2
    /\ Cardinality(RowsIn(districts.list[1])) = MinDistrictRows - 1
    /\ Cardinality(RowsIn(districts.list[2])) = MinDistrictRows
    /\ Len(by_district.rows) = 1
    /\ by_district.rows[1].district = districts.list[2].s
    /\ NotNaN(by_district.rows[1].Liquidity)

ViewMedianIn(name, c) ==
    Median([j \in 1..Len(df_view.rows) |->
              IF df_view.rows[j]["district"] = Str(name)
              THEN to_numeric(df_view.rows[j][c]) ELSE NaN])

\* Two districts have the same vacancy data, or none.
SameVacancy(a, b) == ViewMedianIn(a, "vacancy_days") = ViewMedianIn(b, "vacancy_days")

\* The market of D01 with 60 rows of 10 to 20 days on market and D02 with
\* 40 rows of 40 to 60, without vacancy data.
LiqExample ==
    df_all = MkTable(AllCols, LiqBlock(1, LiqRowsA, <<10, 20>>, "null")
                              \o LiqBlock(2, LiqRowsB, <<40, 60>>, "null"))

\* C24: against one market, of two district views with the same vacancy
\* data or none, the one with the smaller median days_on_market never has
\* the smaller Liquidity; for the market of D01 (60 rows, 10 to 20 days)
\* and D02 (40 rows, 40 to 60 days) the Liquidity of D01 is strictly the
\* greater.
C24_LowerDomScoresHigher ==
    ByDistrictOk =>
      /\ \A i, j \in 1..Len(by_district.rows) :
           (/\ SameVacancy(by_district.rows[i].district, by_district.rows[j].district)
            /\ Le(ViewMedianIn(by_district.rows[i].district, "days_on_market"),
                  ViewMedianIn(by_district.rows[j].district, "days_on_market")))
           => /\ IsNum(by_district.rows[i].Liquidity)
              /\ IsNum(by_district.rows[j].Liquidity)
              /\ Le(by_district.rows[j].Liquidity, by_district.rows[i].Liquidity)
      /\ LiqExample =>
           /\ Len(by_district.rows) = 2
           /\ Lt(by_district.rows[2].Liquidity, by_district.rows[1].Liquidity)

\* The scores of the two districts of the example market.
C24_Witness ==
    /\ ByDistrictOk /\ LiqExample
    /\ Len(by_district.rows) = 2
    /\ by_district.rows[1].district = "D01" /\ by_district.rows[2].district = "D02"
    /\ Lt(ViewMedianIn("D01", "days_on_market"), ViewMedianIn("D02", "days_on_market"))
    /\ Lt(by_district.rows[2].Liquidity, by_district.rows[1].Liquidity)

\* C25: a KPI short of its minimum sample shows no number in score_details.
\* In every row of details.rows, points is non-null exactly when pct is
\* non-null, and a row whose reference distribution over df_all has fewer
\* than MinRef non-null values has both pct and points null (not 0).
RefCount(i) ==
    CASE i = 1 -> CountNotNull(Col(df_all, "days_on_market"))
      [] i = 2 -> CountNotNull(Col(df_all, "vacancy_days"))
      [] i = 3 -> CountNotNull(Col(df_all, "net_yield"))
      [] i = 4 -> Cardinality(DefinedStdDistricts)
      [] i = 5 -> Len(SelectSeq(trend_dist(df_all), NotNaN))

C25_NoNumberBelowMinimum ==
    DetailsOk =>
        \A i \in 1..5 :
            /\ Len(details.rows) = 5
            /\ NotNaN(details.rows[i].points) <=> NotNaN(details.rows[i].pct)
            /\ RefCount(i) < MinRef =>
                   /\ IsNaN(details.rows[i].pct)
                   /\ IsNaN(details.rows[i].points)

\* The risk reference has some but fewer than MinRef deviations and its row
\* is empty, while the days-on-market row of the same call has a number.
C25_Witness ==
    /\ DetailsOk
    /\ RefCount(4) > 0 /\ RefCount(4) < MinRef
    /\ IsNaN(details.rows[4].pct) /\ IsNaN(details.rows[4].points)
    /\ RefCount(1) >= MinRef
    /\ IsNum(details.rows[1].pct) /\ IsNum(details.rows[1].points)

(***************************************************************************)
(* Claims about add_facts (checked under SpecFacts).                       *)
(***************************************************************************)
FactsOk == facts.ok
FactRows == 1..Len(raw.rows)

InBounds(x, lo, hi) == IsNum(x) /\ Le(Num(lo), x) /\ Le(x, Num(hi))
NullOrWithin(x, lo, hi) == IsNaN(x) \/ InBounds(x, lo, hi)

\* The number a raw cell holds, and whether a raw column holds any.
RawNumber(i, c) == to_numeric(raw.rows[i][c])
HasNumber(c) == HasCol(raw, c) /\ \E i \in FactRows : NotNaN(RawNumber(i, c))

\* Field c, taken straight from the first column of srcs that holds a
\* number, keeps the raw value of a row when it is within [lo, hi] and is
\* null when it is outside.
KeptOrNulled(c, srcs, lo, hi) ==
    \A k \in 1..Len(srcs) :
      (HasNumber(srcs[k]) /\ \A h \in 1..(k - 1) : ~HasNumber(srcs[h]))
      => \A i \in FactRows :
           facts.out.rows[i][c] =
             IF InBounds(RawNumber(i, srcs[k]), lo, hi) THEN RawNumber(i, srcs[k])
             ELSE NaN

\* C1: after add_facts every row's price_per_sqm is null or in
\* [2000, 400000], days_on_market null or in [0, 3650], net_yield and
\* gross_yield null or in [-5, 40], service_charge_psm_year null or in
\* [0, 100000] and vacancy_days null or in [0, 3650]; a raw value outside
\* its bounds becomes null, never the bound, and a raw value on a bound is
\* kept.
C1_SanityBounds ==
    FactsOk =>
      /\ Len(facts.out.rows) = Len(raw.rows)
      /\ \A i \in FactRows :
           /\ NullOrWithin(facts.out.rows[i]["price_per_sqm"], PriceMin, PriceMax)
           /\ NullOrWithin(facts.out.rows[i]["days_on_market"], DomMin, DomMax)
           /\ NullOrWithin(facts.out.rows[i]["net_yield"], YieldMin, YieldMax)
           /\ NullOrWithin(facts.out.rows[i]["gross_yield"], YieldMin, YieldMax)
           /\ NullOrWithin(facts.out.rows[i]["service_charge_psm_year"],
                           ChargeMin, ChargeMax)
           /\ NullOrWithin(facts.out.rows[i]["vacancy_days"], VacancyMin, VacancyMax)
      /\ KeptOrNulled("price_per_sqm",
                      <<"weighted_price_per_sqm_aed", "price_per_sqm_aed">>,
                      PriceMin, PriceMax)
      /\ KeptOrNulled("days_on_market", <<"days_on_market">>, DomMin, DomMax)
      /\ KeptOrNulled("net_yield",
                      <<"net_yield_adj_vacancy_pct", "net_yield_est_pct">>,
                      YieldMin, YieldMax)
      /\ KeptOrNulled("gross_yield", <<"gross_yield_pct">>, YieldMin, YieldMax)
      /\ KeptOrNulled("service_charge_psm_year",
                      <<"service_charge_aed_per_sqm_year">>, ChargeMin, ChargeMax)
      /\ KeptOrNulled("vacancy_days", <<"vacancy_days_est">>, VacancyMin, VacancyMax)

C1_Witness ==
    /\ FactsOk
    /\ HasCol(raw, "weighted_price_per_sqm_aed")
    /\ raw.rows[1]["weighted_price_per_sqm_aed"] = Num(PriceMax + 1)
    /\ raw.rows[2]["weighted_price_per_sqm_aed"] = Num(PriceMax)
    /\ IsNaN(facts.out.rows[1]["price_per_sqm"])
    /\ facts.out.rows[2]["price_per_sqm"] = Num(PriceMax)

(***************************************************************************)
(* Claims about weighted_median (checked under SpecWm).                    *)
(***************************************************************************)
WmEligibleIdx ==
    {i \in 1..Len(wm_rows) :
        /\ IsNum(to_numeric(wm_rows[i].v)) /\ IsNum(to_numeric(wm_rows[i].w))
        /\ Lt(Num(0), wm_rows[i].w)}

\* The weight of the eligible rows whose value is at most x.
WmWeightUpTo(x) ==
    SumSeq([i \in 1..Len(wm_rows) |->
              IF i \in WmEligibleIdx /\ Le(wm_rows[i].v, x) THEN wm_rows[i].w
              ELSE Num(0)],
           Len(wm_rows))

WmReaches(x) == Le(Div(WmWeightUpTo(PosInf), Num(2)), WmWeightUpTo(x))

WmCalled == pc = "wm_called"

\* C11: over the rows with a non-null value and a non-null weight > 0,
\* weighted_median returns the smallest value at which the running weight
\* (in ascending value order) reaches half the total weight; null when no
\* row is eligible; and the same result when the rows are reordered, tied
\* values included.
C11_WeightedMedian ==
    WmCalled =>
      /\ IF WmEligibleIdx = {} THEN wm_result = NaN
         ELSE /\ \E i \in WmEligibleIdx : wm_rows[i].v = wm_result
              /\ WmReaches(wm_result)
              /\ \A i \in WmEligibleIdx :
                   Lt(wm_rows[i].v, wm_result) => ~WmReaches(wm_rows[i].v)
      /\ wm_prev.made => wm_result = wm_prev.result

C11_Witness ==
    /\ WmCalled /\ wm_prev.made
    /\ Cardinality(WmEligibleIdx) = 3
    /\ wm_rows[1].v = wm_rows[3].v
    /\ Lt(wm_rows[1].v, wm_rows[2].v)
    /\ WmWeightUpTo(wm_rows[1].v) = Div(WmWeightUpTo(PosInf), Num(2))
    /\ wm_result = wm_rows[1].v

\* The raw column the price is divided from: sale_price_aed if it holds a
\* number, else price if it holds one, else none.
RawPriceCol ==
    IF HasNumber("sale_price_aed") THEN "sale_price_aed"
    ELSE IF HasNumber("price") THEN "price"
    ELSE ""

\* Price over size of raw row i, null for a size that is null or 0.
RawPriceOverSize(i) ==
    IF IsNaN(RawNumber(i, "size_sqm")) \/ RawNumber(i, "size_sqm") = Num(0) THEN NaN
    ELSE Div(RawNumber(i, RawPriceCol), RawNumber(i, "size_sqm"))

\* The price per area of raw row i from the first source that qualifies.
PriceFromFirstSource(i) ==
    IF HasNumber("weighted_price_per_sqm_aed")
    THEN RawNumber(i, "weighted_price_per_sqm_aed")
    ELSE IF HasNumber("price_per_sqm_aed") THEN RawNumber(i, "price_per_sqm_aed")
    ELSE IF RawPriceCol # "" /\ HasCol(raw, "size_sqm") THEN RawPriceOverSize(i)
    ELSE NaN

\* C14: price_per_sqm comes from the first of weighted_price_per_sqm_aed,
\* price_per_sqm_aed and (sale_price_aed, else price) / size_sqm whose
\* column is present and holds a number; a present column without any
\* number is passed over; without a source every row's price_per_sqm is
\* null.  (A value outside the price bounds is null.)
C14_PriceSourceChain ==
    FactsOk =>
      \A i \in FactRows :
        facts.out.rows[i]["price_per_sqm"] =
          IF InBounds(PriceFromFirstSource(i), PriceMin, PriceMax)
          THEN PriceFromFirstSource(i)
          ELSE NaN

\* The weighted column is present and all null, and the price comes from
\* price_per_sqm_aed.
C14_Witness ==
    /\ FactsOk
    /\ HasCol(raw, "weighted_price_per_sqm_aed")
    /\ \A i \in FactRows : IsNaN(raw.rows[i]["weighted_price_per_sqm_aed"])
    /\ HasCol(raw, "price_per_sqm_aed")
    /\ raw.rows[1]["price_per_sqm_aed"] = Num(PriceMin)
    /\ facts.out.rows[1]["price_per_sqm"] = Num(PriceMin)

\* The price is derived as price / size: no higher source qualifies.
PriceIsRatio ==
    /\ ~HasNumber("weighted_price_per_sqm_aed")
    /\ ~HasNumber("price_per_sqm_aed")
    /\ RawPriceCol # "" /\ HasCol(raw, "size_sqm")

\* C15: when price_per_sqm is derived as price / size_sqm, add_facts
\* returns, no price_per_sqm is infinite, and a row whose size is null, 0
\* or negative has a null price_per_sqm, whatever its price.
C15_NoPriceWithoutSize ==
    (facts # NotRun /\ PriceIsRatio) =>
      /\ FactsOk
      /\ \A i \in FactRows :
           /\ ~IsInf(facts.out.rows[i]["price_per_sqm"])
           /\ (IsNaN(RawNumber(i, "size_sqm")) \/ Le(RawNumber(i, "size_sqm"), Num(0)))
                => IsNaN(facts.out.rows[i]["price_per_sqm"])

\* A row with a negative price and a negative size ends with a
\* price_per_sqm within the bounds, next to a row of size 0 that ends null.
C15_Witness ==
    /\ FactsOk /\ PriceIsRatio
    /\ RawNumber(1, "size_sqm") = Num(0)
    /\ NotNaN(RawNumber(1, RawPriceCol))
    /\ IsNaN(facts.out.rows[1]["price_per_sqm"])
    /\ Lt(RawNumber(2, "size_sqm"), Num(0))
    /\ Lt(RawNumber(2, RawPriceCol), Num(0))
    /\ InBounds(facts.out.rows[2]["price_per_sqm"], PriceMin, PriceMax)

\* The end of the listing of raw row i: its last_seen, the clock's reading
\* where the row has none or the table has no such column.
RawLastSeen(i) ==
    IF HasCol(raw, "last_seen") /\ NotNaN(to_datetime(raw.rows[i]["last_seen"]))
    THEN to_datetime(raw.rows[i]["last_seen"])
    ELSE now

\* The whole days from first_seen to the end of the listing of raw row i.
RawDaysListed(i) ==
    IF IsNaN(to_datetime(raw.rows[i]["first_seen"])) THEN NaN
    ELSE Num((RawLastSeen(i).t - to_datetime(raw.rows[i]["first_seen"]).t) \div 2)

\* C16: add_facts returns a table whatever columns the raw table has; when
\* days_on_market is absent or all null and first_seen is present,
\* days_on_market is the whole days from first_seen to last_seen, the
\* clock's reading standing for a missing last_seen or a missing last_seen
\* column (null outside the bounds); when first_seen is absent as well,
\* days_on_market is null.
C16_AlwaysReturns ==
    facts # NotRun =>
      /\ FactsOk
      /\ ~HasNumber("days_on_market") =>
           \A i \in FactRows :
             facts.out.rows[i]["days_on_market"] =
               IF HasCol(raw, "first_seen") /\ InBounds(RawDaysListed(i), DomMin, DomMax)
               THEN RawDaysListed(i)
               ELSE NaN

\* add_facts raised on a table with first_seen, without last_seen and
\* without days_on_market.
C16_Witness ==
    /\ facts = Raised("AttributeError", 66)
    /\ HasCol(raw, "first_seen")
    /\ ~HasCol(raw, "last_seen")
    /\ ~HasCol(raw, "days_on_market")
    /\ raw.rows[1]["first_seen"] = Ts(0)

\* C17: add_facts is a function of the raw table alone: a run of it at any
\* other reading of the clock returns the same result.
C17_Deterministic ==
    facts # NotRun => \A utcnow \in NowSet : add_facts(raw, utcnow) = facts

\* first_seen is set, there is no days_on_market column and row 2 has no
\* last_seen: the run gave row 2 a days_on_market that a run at another
\* reading of the clock does not give.
C17_Witness ==
    /\ FactsOk
    /\ ~HasCol(raw, "days_on_market")
    /\ HasCol(raw, "first_seen") /\ HasCol(raw, "last_seen")
    /\ raw.rows[2]["first_seen"] = Ts(3)
    /\ IsNaN(raw.rows[2]["last_seen"])
    /\ IsNum(facts.out.rows[2]["days_on_market"])
    /\ \E utcnow \in NowSet :
         /\ IsNum(add_facts(raw, utcnow).out.rows[2]["days_on_market"])
         /\ add_facts(raw, utcnow).out.rows[2]["days_on_market"]
              # facts.out.rows[2]["days_on_market"]

\* The table with its rows in the order o.
Permuted(tbl, o) == [cols |-> tbl.cols, rows |-> [i \in 1..Len(tbl.rows) |-> tbl.rows[o[i]]]]

SaysYes(i) ==
    \/ raw.rows[i]["has_terrace"]
         \in {Str("1"), Str("true"), Str("yes"), Str("Yes"), Str("TRUE"), Bool(TRUE)}
    \/ /\ raw.rows[i]["has_terrace"] = Num(1)
       /\ \E j \in FactRows : raw.rows[j]["has_terrace"].k \notin {"num", "nan", "inf"}
    \/ /\ raw.rows[i]["has_terrace"] = Num(1)
       /\ \A j \in FactRows : /\ raw.rows[j]["has_terrace"].k = "num"
                              /\ raw.rows[j]["has_terrace"].d = 1

\* C26: when the raw table has a has_terrace column, add_facts sets
\* has_terrace to true exactly for the rows whose raw value reads "1", "true"
\* or "yes" once lower-cased (not trimmed) and to false for every other row,
\* a missing raw value included; has_terrace is null only when the raw table
\* has no such column, and then in every row.
C26_HasTerrace ==
    FactsOk =>
      \A i \in FactRows :
        /\ HasCol(raw, "has_terrace")
             => facts.out.rows[i]["has_terrace"] = Bool(SaysYes(i))
        /\ IsNaN(facts.out.rows[i]["has_terrace"]) <=> ~HasCol(raw, "has_terrace")

\* An untrimmed "YES " gives false and a "yes" in the same table gives true.
C26_Witness ==
    /\ FactsOk
    /\ HasCol(raw, "has_terrace")
    /\ raw.rows[1]["has_terrace"] = Str("YES ")
    /\ raw.rows[2]["has_terrace"] = Str("yes")
    /\ facts.out.rows[1]["has_terrace"] = Bool(FALSE)
    /\ facts.out.rows[2]["has_terrace"] = Bool(TRUE)

\* Field c of every row comes from the first column of srcs that holds a
\* number anywhere in the table: it is that column's value of the row or
\* null, and null where that column has no number for the row.
FromChosenColumn(c, srcs) ==
    \A k \in 1..Len(srcs) :
      (HasNumber(srcs[k]) /\ \A h \in 1..(k - 1) : ~HasNumber(srcs[h]))
      => \A i \in FactRows :
           /\ facts.out.rows[i][c] \in {NaN, RawNumber(i, srcs[k])}
           /\ IsNaN(RawNumber(i, srcs[k])) => IsNaN(facts.out.rows[i][c])

\* C27: the source of a canonical field is chosen once per table.  Once a
\* higher-priority source column has a non-null value in some row, every row
\* takes its value from that column, and a row whose value there is null
\* gets a null field even when a lower-priority source has a value for the
\* row (price_per_sqm, net_yield and days_on_market).
C27_SourcePerTable ==
    FactsOk =>
      /\ FromChosenColumn("price_per_sqm",
                          <<"weighted_price_per_sqm_aed", "price_per_sqm_aed">>)
      /\ FromChosenColumn("net_yield",
                          <<"net_yield_adj_vacancy_pct", "net_yield_est_pct">>)
      /\ FromChosenColumn("days_on_market", <<"days_on_market">>)

\* The adjusted yield is chosen; row 1 has none there but has an estimated
\* yield within the bounds, and its net_yield is null.
C27_Witness ==
    /\ FactsOk
    /\ HasCol(raw, "net_yield_adj_vacancy_pct") /\ HasCol(raw, "net_yield_est_pct")
    /\ IsNaN(raw.rows[1]["net_yield_adj_vacancy_pct"])
    /\ raw.rows[2]["net_yield_adj_vacancy_pct"] = Num(YieldMax)
    /\ raw.rows[1]["net_yield_est_pct"] = Num(YieldMin)
    /\ IsNaN(facts.out.rows[1]["net_yield"])
    /\ facts.out.rows[2]["net_yield"] = Num(YieldMax)

CanonicalFields ==
    {"price_per_sqm", "days_on_market", "net_yield", "gross_yield",
     "service_charge_psm_year", "vacancy_days", "has_terrace", "terrace_size_sqm"}

\* add_facts applied to its own output, with the clock read at t.
Again(t) == add_facts(facts.out, t)

\* C29: add_facts is idempotent on the canonical fields.  Applied to its own
\* output it returns, for every row, the same price_per_sqm, days_on_market,
\* net_yield, gross_yield, service_charge_psm_year, vacancy_days,
\* has_terrace and terrace_size_sqm as the first application; a has_terrace
\* that is null because the raw column is absent stays null.
C29_Idempotent ==
    FactsOk =>
      \A t \in NowSet :
        t.t >= now.t =>
          /\ Again(t).ok
          /\ Len(Again(t).out.rows) = Len(facts.out.rows)
          /\ \A i \in FactRows : \A c \in CanonicalFields :
                Again(t).out.rows[i][c] = facts.out.rows[i][c]

\* The raw table has no has_terrace column: the first application leaves
\* has_terrace null and the second one turns it into false.
C29_Witness ==
    /\ FactsOk
    /\ ~HasCol(raw, "has_terrace")
    /\ IsNaN(facts.out.rows[1]["has_terrace"])
    /\ Again(now).ok
    /\ Again(now).out.rows[1]["has_terrace"] = Bool(FALSE)

(***************************************************************************)
(* Claims about group_stats, checked under SpecGs.                         *)
(***************************************************************************)
GsCalled == pc = "gs_called"

\* The rows of the input that qualify for the group with key k: every group
\* key is there and equal to k's, and the value is a number.
GsQualifying(k) ==
    {i \in 1..Len(gs_df.rows) :
        /\ \A c \in 1..Len(gs_group_cols(gs_args)) :
              /\ ~IsNaN(gs_df.rows[i][gs_group_cols(gs_args)[c]])
              /\ gs_df.rows[i][gs_group_cols(gs_args)[c]] = k[c]
        /\ IsNum(to_numeric(gs_df.rows[i][gs_args.value_col]))}

\* The key combinations that occur in the input.
GsKeys == {gs_key(gs_df.rows[i], gs_args) : i \in 1..Len(gs_df.rows)}

GsReported(k) == \E j \in 1..Len(gs_result.rows) : gs_result.rows[j].key = k

\* C12: a returned group_stats result has exactly one row for every
\* combination of group keys with at least min_n qualifying rows (rows with
\* all group keys and a numeric value), with n the number of those rows,
\* and no row for any other combination.
C12_GroupStats ==
    (GsCalled /\ gs_result.ok /\ ~gs_missing(gs_df, gs_args)) =>
        /\ \A k \in GsKeys :
              GsReported(k) <=> Cardinality(GsQualifying(k)) >= gs_args.min_n
        /\ \A j \in 1..Len(gs_result.rows) :
              /\ gs_result.rows[j].key \in GsKeys
              /\ gs_result.rows[j].n = Cardinality(GsQualifying(gs_result.rows[j].key))
              /\ \A h \in 1..Len(gs_result.rows) :
                    gs_result.rows[h].key = gs_result.rows[j].key => h = j

\* min_n = 10; district A has 9 qualifying rows and a tenth row without a
\* value and is not reported; district B has exactly 10 and is reported
\* with n = 10; a row without a district is in the input.
C12_Witness ==
    /\ GsCalled /\ gs_result.ok /\ ~gs_missing(gs_df, gs_args)
    /\ gs_args.min_n = MinN
    /\ gs_group_cols(gs_args) = <<"district">>
    /\ Cardinality(GsQualifying(<<Str("A")>>)) = MinN - 1
    /\ Cardinality({i \in 1..Len(gs_df.rows) : gs_df.rows[i].district = Str("A")}) = MinN
    /\ Cardinality(GsQualifying(<<Str("B")>>)) = MinN
    /\ \E i \in 1..Len(gs_df.rows) : IsNaN(gs_df.rows[i].district)
    /\ ~GsReported(<<Str("A")>>)
    /\ Len(gs_result.rows) = 1
    /\ gs_result.rows[1].key = <<Str("B")>>
    /\ gs_result.rows[1].n = MinN

\* No combination of group keys has min_n qualifying rows.
GsNoneQualifies ==
    gs_missing(gs_df, gs_args)
    \/ \A k \in GsKeys : Cardinality(GsQualifying(k)) < gs_args.min_n

\* C28: group_stats returns, without raising, an empty table whenever no
\* group qualifies (a group or value column absent, every row without a key
\* or a value, or every group below min_n qualifying rows), and otherwise
\* returns its rows ordered by n descending.
C28_EmptyWhenNoneQualifies ==
    GsCalled =>
        /\ gs_result.ok
        /\ GsNoneQualifies => gs_result.rows = <<>>
        /\ \A j \in 1..(Len(gs_result.rows) - 1) :
              gs_result.rows[j].n >= gs_result.rows[j + 1].n

\* Rows with a key and a value exist, every group is below min_n, and the
\* call ended with the KeyError of the sort at line 69.
C28_Witness ==
    /\ GsCalled
    /\ ~gs_missing(gs_df, gs_args)
    /\ \E k \in GsKeys : Cardinality(GsQualifying(k)) > 0
    /\ \A k \in GsKeys : Cardinality(GsQualifying(k)) < gs_args.min_n
    /\ gs_result = Raised("KeyError", 69)

(***************************************************************************)
(* Claims about snapshot and snapshots_by, checked under SpecSnap.         *)
(***************************************************************************)
SnapCalled == snap # NotRun
SnapOk == snap.ok

\* The view has column c and a number in it.
ViewHasNumber(c) ==
    HasCol(sn_view, c) /\ \E i \in 1..Len(sn_view.rows) : IsNum(to_numeric(sn_view.rows[i][c]))

\* KPI kpi of the bundle is null when column c is absent or all null and
\* is a number when c holds a number.
NullIffNoNumber(kpi, c) == IsNum(snap.kpis[kpi]) <=> ViewHasNumber(c)

\* C18: snapshot returns a bundle whatever columns the view has or lacks;
\* a median whose column is absent or all null is null in it, and a median
\* whose column holds a number is a number, whatever other column is
\* missing.
C18_SnapshotNeverRaises ==
    SnapCalled =>
      /\ SnapOk
      /\ NullIffNoNumber("median_price_sqm", "price_per_sqm")
      /\ NullIffNoNumber("median_dom", "days_on_market")
      /\ NullIffNoNumber("gross_yield_median", "gross_yield")
      /\ NullIffNoNumber("net_yield_median", "net_yield")
      /\ NullIffNoNumber("vacancy_days_median", "vacancy_days")
      /\ NullIffNoNumber("service_charge_median", "service_charge_psm_year")
      /\ NullIffNoNumber("terrace_size_median", "terrace_size_sqm")

\* snapshot raised on a view without price_per_sqm whose yield and cost
\* columns hold numbers.
C18_Witness ==
    /\ snap = Raised("AttributeError", 27)
    /\ ~HasCol(sn_view, "price_per_sqm")
    /\ ViewHasNumber("gross_yield") /\ ViewHasNumber("net_yield")
    /\ ViewHasNumber("service_charge_psm_year")
    /\ HasCol(sn_view, "days_on_market") /\ HasCol(sn_view, "vacancy_days")
    /\ HasCol(sn_view, "terrace_size_sqm")

\* The rows of the view whose days_on_market is a number of at most days.
FastRows(days) ==
    {i \in 1..Len(sn_view.rows) :
        Le(to_numeric(sn_view.rows[i]["days_on_market"]), Num(days))}

\* The fast-sale ratio kpi is null when no days_on_market is known, and is
\* 0 only when one is known and none is at most days.
NullWhenUnknown(kpi, days) ==
    /\ ~ViewHasNumber("days_on_market") => IsNaN(snap.kpis[kpi])
    /\ snap.kpis[kpi] = Num(0) => (ViewHasNumber("days_on_market") /\ FastRows(days) = {})

\* C19: in a snapshot, fast_sale_ratio_30d and fast_sale_ratio_60d are
\* null when the view has no known days_on_market, and 0 only when some
\* days_on_market is known and none is within the threshold.
C19_NoZeroForUnknown ==
    (SnapCalled /\ SnapOk) =>
      /\ NullWhenUnknown("fast_sale_ratio_30d", FastDays30)
      /\ NullWhenUnknown("fast_sale_ratio_60d", FastDays60)

\* A view with rows and an all-null days_on_market: median_dom is null and
\* both fast-sale ratios are 0.
C19_Witness ==
    /\ SnapCalled /\ SnapOk
    /\ Len(sn_view.rows) = MinKpiRows
    /\ ~ViewHasNumber("days_on_market")
    /\ IsNaN(snap.kpis["median_dom"])
    /\ snap.kpis["fast_sale_ratio_30d"] = Num(0)
    /\ snap.kpis["fast_sale_ratio_60d"] = Num(0)

\* The rows of the view with a gross_yield and a net_yield.
BothYields ==
    {i \in 1..Len(sn_view.rows) :
        /\ IsNum(to_numeric(sn_view.rows[i]["gross_yield"]))
        /\ IsNum(to_numeric(sn_view.rows[i]["net_yield"]))}

\* The median of gross_yield - net_yield over the rows of BothYields, null
\* when there is none.
MedianDrag ==
    Median([j \in 1..Cardinality(BothYields) |->
              LET i == CHOOSE i \in BothYields :
                          Cardinality({h \in BothYields : h < i}) = j - 1
              IN  Sub(to_numeric(sn_view.rows[i]["gross_yield"]),
                      to_numeric(sn_view.rows[i]["net_yield"]))])

\* C22: in a snapshot, vacancy_drag_median and vacancy_drag_index are both
\* the median of gross_yield - net_yield over the rows that have both
\* yields, and both are null when no row has both.
C22_VacancyDragAgree ==
    (SnapCalled /\ SnapOk) =>
      /\ snap.kpis["vacancy_drag_median"] = MedianDrag
      /\ snap.kpis["vacancy_drag_index"] = MedianDrag

\* gross_yield and net_yield each hold numbers, in no common row: both
\* figures are null.
C22_Witness ==
    /\ SnapCalled /\ SnapOk
    /\ ViewHasNumber("gross_yield") /\ ViewHasNumber("net_yield")
    /\ BothYields = {}
    /\ IsNaN(snap.kpis["vacancy_drag_median"])
    /\ IsNaN(snap.kpis["vacancy_drag_index"])

SnapsCalled == snaps # NotRun

\* The rows of the view whose group key is k, and the non-null keys.
KeyRows(k) == {i \in 1..Len(sn_view.rows) : sn_view.rows[i][sn_group_col] = k}
ViewKeys ==
    {sn_view.rows[i][sn_group_col] : i \in 1..Len(sn_view.rows)} \ {NaN}

\* The view cut down to the rows of key k, in the view's order.
ViewOfKey(k) ==
    [cols |-> sn_view.cols,
     rows |-> [j \in 1..Cardinality(KeyRows(k)) |->
                 sn_view.rows[CHOOSE i \in KeyRows(k) :
                                 Cardinality({h \in KeyRows(k) : h < i}) = j - 1]]]

\* C20: a returned snapshots_by table is empty when the view lacks the
\* group column; otherwise it has exactly one row for each non-null value
\* of the column, single-row groups included, each with the rows of that
\* value counted in n_obs and with the KPIs of snapshot on those rows, and
\* the n_obs add up to the number of rows with a non-null key.
C20_SnapshotsBy ==
    (SnapsCalled /\ snaps.ok) =>
      IF ~HasCol(sn_view, sn_group_col) THEN snaps.rows = <<>>
      ELSE /\ {snaps.rows[j].key : j \in 1..Len(snaps.rows)} = ViewKeys
           /\ Len(snaps.rows) = Cardinality(ViewKeys)
           /\ \A j \in 1..Len(snaps.rows) :
                /\ snaps.rows[j].kpis.n_obs = Cardinality(KeyRows(snaps.rows[j].key))
                /\ snapshot(ViewOfKey(snaps.rows[j].key))
                     = [ok |-> TRUE, kpis |-> snaps.rows[j].kpis]
           /\ SumSeq([j \in 1..Len(snaps.rows) |-> Num(snaps.rows[j].kpis.n_obs)],
                     Len(snaps.rows))
                = Num(Cardinality({i \in 1..Len(sn_view.rows) :
                                     NotNaN(sn_view.rows[i][sn_group_col])}))

\* A view of MaxSnapRows rows, some without a district: three districts
\* are reported, D02 with its single row.
C20_Witness ==
    /\ SnapsCalled /\ snaps.ok
    /\ sn_group_col = "district" /\ HasCol(sn_view, "district")
    /\ Len(sn_view.rows) = MaxSnapRows
    /\ \E i \in 1..Len(sn_view.rows) : IsNaN(sn_view.rows[i]["district"])
    /\ Len(snaps.rows) = 3
    /\ \E j \in 1..3 : /\ snaps.rows[j].key = Str("D02")
                       /\ snaps.rows[j].kpis.n_obs = 1
    /\ \E j \in 1..3 : snaps.rows[j].kpis.n_obs > 1

(***************************************************************************)
(* Claims about terrace_premium, checked under SpecTp.                     *)
(***************************************************************************)
TpCalled == tp_result # NotRun

\* The rows of the view with a price_per_sqm and a has_terrace, and those
\* among them whose has_terrace is true (flag = TRUE) or false.
TpKnown ==
    {i \in 1..Len(tp_view.rows) :
        ~IsNaN(tp_view.rows[i]["price_per_sqm"]) /\ ~IsNaN(tp_view.rows[i]["has_terrace"])}
TpWith(flag) ==
    {i \in TpKnown : tp_view.rows[i]["has_terrace"] \in {Bool(flag), Num(IF flag THEN 1 ELSE 0)}}

\* The median price of the rows of TpWith(flag).
TpMedian(flag) ==
    Median([j \in 1..Cardinality(TpWith(flag)) |->
              tp_view.rows[CHOOSE i \in TpWith(flag) :
                              Cardinality({h \in TpWith(flag) : h < i}) = j - 1]["price_per_sqm"]])

TpIsNull ==
    \/ ~HasCol(tp_view, "has_terrace")
    \/ Cardinality(TpKnown) < MinTerraceRows
    \/ TpWith(TRUE) = {} \/ TpWith(FALSE) = {}
    \/ TpMedian(FALSE) = Num(0)

\* C21: a returned terrace_premium has both values null when has_terrace
\* is absent, when fewer than 20 rows have a price_per_sqm and a
\* has_terrace, when the terraced or the plain group is empty or when the
\* plain group's median is 0; otherwise premium_abs is the terraced median
\* minus the plain median and premium_pct is premium_abs over the plain
\* median.
C21_TerracePremium ==
    (TpCalled /\ tp_result.ok) =>
      IF TpIsNull
      THEN IsNaN(tp_result.premium_abs) /\ IsNaN(tp_result.premium_pct)
      ELSE /\ tp_result.premium_abs = Sub(TpMedian(TRUE), TpMedian(FALSE))
           /\ tp_result.premium_pct
                = Div(Sub(TpMedian(TRUE), TpMedian(FALSE)), TpMedian(FALSE))

\* 25 terraced rows of median 15000 and 25 plain rows of median 12000 give
\* 3000 and 1/4.
C21_Witness ==
    /\ TpCalled /\ tp_result.ok
    /\ HasCol(tp_view, "has_terrace") /\ HasCol(tp_view, "price_per_sqm")
    /\ Cardinality(TpWith(TRUE)) = TpGroup /\ Cardinality(TpWith(FALSE)) = TpGroup
    /\ TpMedian(TRUE) = Num(15000) /\ TpMedian(FALSE) = Num(12000)
    /\ tp_result.premium_abs = Num(3000)
    /\ tp_result.premium_pct = Frac(1, 4)

(***************************************************************************)
(* The denominators of the fast-sale ratios, checked under SpecSnap.       *)
(***************************************************************************)
\* The rows of the view with a known days_on_market.
DomKnown ==
    {i \in 1..Len(sn_view.rows) : IsNum(to_numeric(sn_view.rows[i]["days_on_market"]))}

KnownDom == NumericDropna(Col(sn_view, "days_on_market"))

====
